---- MODULE Spec2Model ----
(***************************************************************************)
(* Channel-routing component of TopoFlow (channels_base.py) and the stop   *)
(* logic of its driver (topoflow_driver.py), as a state machine.           *)
(*                                                                         *)
(* Numbers.  The program computes in float64 on numpy grids.  Here a       *)
(* number is a fixed-point integer in units of 1/SCALE (so 1.0 is SCALE),  *)
(* or one of the three non-finite floats NaN, PInf, NInf.  The arithmetic  *)
(* operators below follow IEEE-754 / numpy for the non-finite cases        *)
(* (x/0, 0/0, inf-inf, NaN propagation through np.maximum, comparisons     *)
(* with NaN false) and round finite results toward zero.  A grid is a      *)
(* function on Cells.                                                      *)
(***************************************************************************)
EXTENDS Integers, Sequences, FiniteSets, TLC

\* ------------------------------------------------------------------ bounds
NCells   == 4      \* number of grid cells of the flow network
MaxTicks == 2      \* number of update() calls explored
SCALE    == 10 * 10 \* fixed-point resolution: 1.0 is represented by SCALE

\* --------------------------------------------------------- non-finite floats
PInf == 2 * 1000000000
NInf == 0 - PInf
NaN  == PInf + 1

IsNaN(x)    == x = NaN
IsInf(x)    == x = PInf \/ x = NInf
IsFinite(x) == ~IsNaN(x) /\ ~IsInf(x)

\* ------------------------------------------------------------ float algebra
Sign(x) == IF x > 0 THEN 1 ELSE IF x < 0 THEN 0 - 1 ELSE 0

\* integer quotient rounded toward zero (y > 0 or y < 0)
TDiv(x, y) == Sign(x) * Sign(y) * ((Sign(x) * x) \div (Sign(y) * y))

FNeg(a) == IF IsNaN(a) THEN NaN ELSE 0 - a

FAdd(a, b) ==
    IF IsNaN(a) \/ IsNaN(b) THEN NaN
    ELSE IF IsInf(a) /\ IsInf(b) THEN (IF a = b THEN a ELSE NaN)
    ELSE IF IsInf(a) THEN a
    ELSE IF IsInf(b) THEN b
    ELSE a + b

FSub(a, b) == FAdd(a, FNeg(b))

\* (x * y) / SCALE rounded toward zero for x, y >= 0, the larger factor split
\* into its whole and fractional part so that the product stays in range
MulDiv(x, y) ==
    LET hi == IF x >= y THEN x ELSE y
        lo == IF x >= y THEN y ELSE x
    IN  (hi \div SCALE) * lo + ((hi % SCALE) * lo) \div SCALE

FMul(a, b) ==
    IF IsNaN(a) \/ IsNaN(b) THEN NaN
    ELSE IF IsInf(a) \/ IsInf(b)
         THEN (IF a = 0 \/ b = 0 THEN NaN
               ELSE IF Sign(a) * Sign(b) > 0 THEN PInf ELSE NInf)
    ELSE Sign(a) * Sign(b) * MulDiv(Sign(a) * a, Sign(b) * b)

\* (x * SCALE) / y rounded toward zero for x >= 0, y > 0, the quotient taken
\* in its whole and fractional part so that the product stays in range
DivMul(x, y) == (x \div y) * SCALE + ((x % y) * SCALE) \div y

FDiv(a, b) ==
    IF IsNaN(a) \/ IsNaN(b) THEN NaN
    ELSE IF IsInf(a) /\ IsInf(b) THEN NaN
    ELSE IF IsInf(a) THEN (IF Sign(a) * (IF b < 0 THEN 0 - 1 ELSE 1) > 0 THEN PInf ELSE NInf)
    ELSE IF IsInf(b) THEN 0
    ELSE IF b = 0 THEN (IF a = 0 THEN NaN ELSE IF a > 0 THEN PInf ELSE NInf)
    ELSE Sign(a) * Sign(b) * DivMul(Sign(a) * a, Sign(b) * b)

\* comparisons: any comparison with NaN is False
FLt(a, b) == ~IsNaN(a) /\ ~IsNaN(b) /\ a < b
FGt(a, b) == FLt(b, a)
FLe(a, b) == ~IsNaN(a) /\ ~IsNaN(b) /\ a <= b
FGe(a, b) == FLe(b, a)

\* np.maximum / np.minimum / np.abs: NaN propagates
FMax(a, b) == IF IsNaN(a) \/ IsNaN(b) THEN NaN ELSE IF a >= b THEN a ELSE b
FMin(a, b) == IF IsNaN(a) \/ IsNaN(b) THEN NaN ELSE IF a <= b THEN a ELSE b
FAbs(a)    == IF IsNaN(a) THEN NaN ELSE IF a < 0 THEN 0 - a ELSE a

\* floor of the k-th root of a natural number, by bisection on lo..hi
RECURSIVE RootB(_, _, _, _)
RootB(x, k, lo, hi) ==
    IF lo >= hi THEN lo
    ELSE LET mid == (lo + hi + 1) \div 2
             p   == IF k = 2 THEN mid * mid ELSE mid * mid * mid
         IN  IF p <= x THEN RootB(x, k, mid, hi) ELSE RootB(x, k, lo, mid - 1)

ISqrt(x) == RootB(x, 2, 0, 46340)
ICbrt(x) == RootB(x, 3, 0, 1290)

\* arguments from BigArg on are scaled after the root is taken, not before
BigArg == 20 * 1000 * 1000

\* np.sqrt
FSqrt(a) ==
    IF IsNaN(a) \/ a < 0 THEN NaN
    ELSE IF a = PInf THEN PInf
    ELSE IF a < BigArg THEN ISqrt(a * SCALE)
    ELSE ISqrt(a) * ISqrt(SCALE)

\* x ** (1/3) and x ** (2/3) for x >= 0 (NaN for x < 0, as numpy gives)
FPow13(a) ==
    IF IsNaN(a) \/ a < 0 THEN NaN
    ELSE IF a = PInf THEN PInf
    ELSE IF a < BigArg \div SCALE THEN ICbrt(a * SCALE * SCALE)
    ELSE ICbrt(a * ISqrt(SCALE)) * ISqrt(SCALE)

FPow23(a) ==
    IF IsNaN(a) \/ a < 0 THEN NaN
    ELSE IF a = PInf THEN PInf
    ELSE IF a < 40 * SCALE THEN ICbrt(a * a * SCALE)
    ELSE FMul(FPow13(a), FPow13(a))

\* np.log: ln(2) = 0.69; ln(m) for 1 <= m < 2 by 2*(y + y^3/3), y = (m-1)/(m+1)
LN2 == (69 * SCALE) \div 100

RECURSIVE LnGe1(_)
LnGe1(x) ==
    IF x >= 2 * SCALE THEN LN2 + LnGe1(x \div 2)
    ELSE LET y == FDiv(x - SCALE, x + SCALE)
         IN  2 * (y + FMul(FMul(y, y), y) \div 3)

FLog(a) ==
    IF IsNaN(a) \/ a < 0 THEN NaN
    ELSE IF a = 0 THEN NInf
    ELSE IF a = PInf THEN PInf
    ELSE IF a >= SCALE THEN LnGe1(a)
    ELSE 0 - LnGe1((SCALE * SCALE) \div a)

\* ------------------------------------------------------------------ grids
Cells == 1 .. NCells

Grid(v) == [c \in Cells |-> v]

RECURSIVE SumOver(_, _)
SumOver(g, S) ==
    IF S = {} THEN 0
    ELSE LET c == CHOOSE x \in S : TRUE
         IN  FAdd(g[c], SumOver(g, S \ {c}))

\* np.sum over a whole grid
GridSum(g) == SumOver(g, Cells)

\* -------------------------------------------------------- D8 flow network
\* The flow network is read-only for the channels component: every cell
\* has one downstream parent or is a noflow (sink) cell.  Cells 1 and 2
\* both drain into cell 3, the others form a chain that ends in the sink.
noflow_IDs == {NCells}

parent_IDs ==
    [c \in Cells |-> IF c = NCells THEN c
                     ELSE IF c <= 2 /\ NCells >= 3 THEN 3
                     ELSE c + 1]

\* D8 flow code of a cell (0 = undefined direction).  Cells that share a
\* parent necessarily have different codes, as on a raster.
d8_code == [c \in Cells |-> IF c \in noflow_IDs THEN 0 ELSE IF c = 2 THEN 2 ELSE 1]

\* d8.w1 .. d8.w8: the cells of each flow code; d8.p1 .. d8.p8 are their parents
d8_w(k)    == {c \in Cells : d8_code[c] = k}
d8_p_OK(k) == d8_w(k) # {}

outlet_ID == IF NCells >= 2 THEN NCells - 1 ELSE 1

\* flow width and flow length of the cells
d8_dw == Grid(SCALE)
d8_ds == Grid(2 * SCALE)

\* -------------------------------------------------------------- constants
g_const   == (981 * SCALE) \div 100      \* 9.81
aval      == (476 * SCALE) \div 1000     \* 0.476
kappa     == (408 * SCALE) \div 1000     \* 0.408
rho_H2O   == 1000 * SCALE                \* density of water, from the met component
da        == SCALE                       \* pixel area
dt        == SCALE                       \* channel timestep
flood_manning_n == (10 * SCALE) \div 100 \* 0.10
width_ratio     == 5 * SCALE             \* 5.0
n_days    == 50                          \* drain time of the linear reservoir [days]

\* np.tan and np.cos at the two bank angles of the model: 0 and atan(3/4)
AngleSet == {0, 1}
Tan(a)   == IF a = 0 THEN 0 ELSE (75 * SCALE) \div 100
Cos(a)   == IF a = 0 THEN SCALE ELSE (80 * SCALE) \div 100

\* ------------------------------------------------------------------ state
VARIABLES
    pc,      \* position of the run: which call or sub-step of update() is next
    self,    \* the channels component (its attributes, by name)
    env,     \* fluxes supplied by the other components, shared by reference
    drv,     \* the TopoFlow driver component
    hist     \* values remembered from the start of the current tick

vars == <<pc, self, env, drv, hist>>

\* --------------------------------------------------- configurations (CFG)
\* Options of the channels CFG file.  The routing scheme is kinematic,
\* diffusive (neither flag) or dynamic; OVERRIDE tells whether the component
\* is a routing-scheme subclass that overrides update_velocity() or the base
\* class itself.
Cfg(status, flood, att, chk, man, kin, dyn, ovr, scal) ==
    [ comp_status     |-> status,
      FLOOD_OPTION    |-> flood,
      ATTENUATE       |-> att,
      CHECK_STABILITY |-> chk,
      MANNING         |-> man,
      LAW_OF_WALL     |-> ~man,
      KINEMATIC_WAVE  |-> kin,
      DYNAMIC_WAVE    |-> dyn,
      OVERRIDE        |-> ovr,
      SCALAR_ANGLES   |-> scal ]

\* The configurations explored
Configs ==
    { Cfg("Disabled", FALSE, FALSE, TRUE,  TRUE,  TRUE,  FALSE, TRUE,  TRUE),
      Cfg("Enabled",  FALSE, FALSE, TRUE,  TRUE,  TRUE,  FALSE, FALSE, TRUE),
      Cfg("Enabled",  FALSE, FALSE, TRUE,  TRUE,  TRUE,  FALSE, TRUE,  TRUE),
      Cfg("Enabled",  TRUE,  FALSE, TRUE,  TRUE,  TRUE,  FALSE, TRUE,  FALSE),
      Cfg("Enabled",  FALSE, FALSE, TRUE,  FALSE, TRUE,  FALSE, TRUE,  TRUE),
      Cfg("Enabled",  TRUE,  FALSE, FALSE, TRUE,  FALSE, FALSE, TRUE,  TRUE),
      Cfg("Enabled",  FALSE, FALSE, TRUE,  FALSE, FALSE, FALSE, TRUE,  FALSE),
      Cfg("Enabled",  FALSE, TRUE,  TRUE,  TRUE,  TRUE,  FALSE, TRUE,  TRUE),
      Cfg("Enabled",  FALSE, FALSE, TRUE,  TRUE,  FALSE, TRUE,  TRUE,  TRUE) }

\* Static inputs read by read_input_files(): bottom width (zero in cell 1, as
\* on a DEM edge), bank angle, initial depth, slope, roughness.
width_in == [c \in Cells |-> IF c = 1 THEN 0 ELSE 2 * SCALE]
slope_in == Grid((4 * SCALE) \div 100)
sinu_in  == Grid(SCALE)
nval_in  == (20 * SCALE) \div 100
z0val_in == (10 * SCALE) \div 100
d_bankfull_in == SCALE \div 2

\* the bank angle: one value everywhere when scalar, mixed when a grid
angle_in(scalar, a) == [c \in Cells |-> IF scalar \/ c % 2 = 0 THEN a ELSE 0]

\* initial depths: dry, or water standing in cells 1 and 3
D0Set == { Grid(0), [c \in Cells |-> IF c \in {1, 3} THEN SCALE ELSE 0] }

\* the initial depth and bank angle of a run
InitCases == { <<d0, a>> \in D0Set \X AngleSet : a = 0 \/ d0 # Grid(0) }

\* ------------------------------------------------------- the component
\* In the non-flood case vol and vol_chan are two names of one array, and
\* so are Q and Qc: a write to one is a write to the other.
WithVol(s, v) ==
    [s EXCEPT !.vol = v, !.vol_chan = IF s.cfg.FLOOD_OPTION THEN @ ELSE v]

WithQc(s, q) ==
    [s EXCEPT !.Qc = q, !.Q = IF s.cfg.FLOOD_OPTION THEN @ ELSE q]

\* the component before initialize(): nothing computed yet
NewComponent ==
    [ cfg |-> CHOOSE c \in Configs : TRUE,
      status |-> "created", DONE |-> FALSE, OK |-> TRUE,
      time_index |-> 0, time_min |-> 0,
      width |-> Grid(0), angle |-> Grid(0), ds |-> Grid(0),
      S_bed |-> Grid(0), S_free |-> Grid(0),
      nval |-> 0, z0val |-> 0, d_bankfull |-> 0, vol_bankfull |-> Grid(0),
      R |-> Grid(0), Qc |-> Grid(0), Qf |-> Grid(0), Q |-> Grid(0),
      vol |-> Grid(0), vol_chan |-> Grid(0), vol_flood |-> Grid(0),
      vol_stored |-> Grid(0),
      d |-> Grid(0), d_flood |-> Grid(0), d_is_pos |-> Grid(FALSE),
      A_wet |-> Grid(0), P_wet |-> Grid(0), Rh |-> Grid(0),
      tau |-> Grid(0), u_star |-> Grid(0), f |-> Grid(0), u |-> Grid(0),
      froude |-> Grid(0),
      vol_R |-> 0, vol_Q |-> 0, vol_edge |-> 0,
      vol_chan_sum |-> 0, vol_chan_sum0 |-> 0, vol_flood_sum |-> 0,
      Q_outlet |-> 0, u_outlet |-> 0, d_outlet |-> 0, f_outlet |-> 0,
      Q_peak |-> 0, T_peak |-> 0, u_peak |-> 0, Tu_peak |-> 0,
      d_peak |-> 0, Td_peak |-> 0,
      ref |-> [Q_outlet |-> 0, u_outlet |-> 0, d_outlet |-> 0, f_outlet |-> 0],
      obj |-> << >> ]

\* trapezoid cross-section: wetted area and wetted perimeter at depth d
TrapArea(dd, w, a)  == FMul(dd, FAdd(w, FMul(dd, Tan(a))))
TrapPerim(dd, w, a) == FAdd(w, FDiv(FMul(2 * SCALE, dd), Cos(a)))

IsBadSlope(x) == IsNaN(x) \/ x = 0 \/ x < 0 \/ IsInf(x)

\* minimum of a non-empty set of numbers
SetMin(S) == CHOOSE x \in S : \A y \in S : x <= y

\* remove_bad_slopes() ends in an error (the minimum of an empty selection)
\* when some slope is bad and none is good
remove_bad_slopes_fails(slope) ==
    /\ \E c \in Cells : IsBadSlope(slope[c])
    /\ \A c \in Cells : IsBadSlope(slope[c])

\* remove_bad_slopes() that looks for zero and negative slopes only
remove_bad_slopes_finite_only(slope) ==
    LET good == {c \in Cells : ~(slope[c] = 0 \/ FLt(slope[c], 0))}
    IN  IF good = Cells \/ good = {} THEN slope
        ELSE LET S_min == SetMin({slope[c] : c \in good})
             IN  [c \in Cells |-> IF c \in good THEN slope[c] ELSE S_min]

remove_bad_slopes(slope) ==
    LET good == {c \in Cells : ~IsBadSlope(slope[c])}
    IN  IF good = Cells \/ good = {} THEN slope
        ELSE LET S_min == SetMin({slope[c] : c \in good})
             IN  [c \in Cells |-> IF c \in good THEN slope[c] ELSE S_min]

update_total_channel_water_volume(s) ==
    [s EXCEPT !.vol_chan_sum = GridSum(s.vol_chan)]

update_total_flood_water_volume(s) ==
    [s EXCEPT !.vol_flood_sum = GridSum(s.vol_flood)]

\* initialize_outlet_values(): four new 0-d arrays holding 0.  obj is the
\* storage of the 0-d arrays made so far, ref names the array each attribute
\* is bound to, and s.Q_outlet etc. are what the attributes read.
initialize_outlet_values(s) ==
    LET n == Len(s.obj)
    IN  [s EXCEPT !.Q_outlet = 0, !.u_outlet = 0, !.d_outlet = 0, !.f_outlet = 0,
                  !.ref = [Q_outlet |-> n + 1, u_outlet |-> n + 2,
                           d_outlet |-> n + 3, f_outlet |-> n + 4],
                  !.obj = @ \o <<0, 0, 0, 0>>]

initialize_peak_values(s) ==
    [s EXCEPT !.Q_peak = 0, !.T_peak = 0, !.u_peak = 0, !.Tu_peak = 0,
              !.d_peak = 0, !.Td_peak = 0]

\* initialize_computed_vars(): s carries the values read from the input files
initialize_computed_vars(s, d0) ==
    LET w1     == [c \in Cells |-> IF s.width[c] = 0 THEN d8_dw[c] ELSE s.width[c]]
        ds1    == [c \in Cells |-> FMul(sinu_in[c], d8_ds[c])]
        slope0 == [c \in Cells |-> FDiv(s.S_bed[c], sinu_in[c])]
        slope1 == IF s.cfg.KINEMATIC_WAVE THEN remove_bad_slopes(slope0) ELSE slope0
        A0     == [c \in Cells |-> TrapArea(d0[c], w1[c], s.angle[c])]
        P0     == [c \in Cells |-> TrapPerim(d0[c], w1[c], s.angle[c])]
        vc0    == [c \in Cells |-> FMul(A0[c], ds1[c])]
        Acb    == [c \in Cells |-> TrapArea(s.d_bankfull, w1[c], s.angle[c])]
        s1     == [s EXCEPT
                     !.nval   = IF s.cfg.LAW_OF_WALL \/ ~s.cfg.MANNING THEN 0 - SCALE ELSE @,
                     !.z0val  = IF s.cfg.MANNING \/ ~s.cfg.LAW_OF_WALL THEN 0 - SCALE ELSE @,
                     !.width  = w1,
                     !.ds     = ds1,
                     !.S_bed  = slope1,
                     !.S_free = slope0,
                     !.d      = d0,
                     !.A_wet  = A0,
                     !.P_wet  = P0,
                     !.vol_chan = vc0,
                     !.vol    = vc0,
                     !.vol_bankfull = [c \in Cells |-> FMul(Acb[c], ds1[c])] ]
        s2     == update_total_channel_water_volume(s1)
        s3     == [s2 EXCEPT !.vol_chan_sum0 = s2.vol_chan_sum]
    IN  initialize_peak_values(initialize_outlet_values(s3))

\* ------------------------------------------------ sub-steps of update()
\* update_R(): the ET used in this tick.  w marks the cells that hold less
\* water than ET would remove; a grid ET is zeroed there, a scalar ET is
\* replaced by 0.0 altogether.
ET_local(s, e) ==
    [c \in Cells |->
        IF e.ET_ndim = 2
        THEN (IF FLt(s.vol[c], FMul(e.ET[c], dt)) THEN 0 ELSE e.ET[c])
        ELSE 0]

\* a grid ET is the supplier's own array, written in place
update_R_env(s, e) ==
    IF e.ET_ndim = 2 THEN [e EXCEPT !.ET = ET_local(s, e)] ELSE e

update_R(s, e) ==
    LET ET == ET_local(s, e)
    IN  [s EXCEPT !.R =
           [c \in Cells |->
               FSub(FAdd(FAdd(FAdd(e.P_rain[c], e.SM[c]), e.GW[c]), e.MR[c]),
                    FAdd(ET[c], e.Infil[c]))]]

\* update_R_integral() that counts the gains only
update_R_integral_gains(s) ==
    LET volume == [c \in Cells |-> FMul(FMul(FMax(s.R[c], 0), da), dt)]
    IN  [s EXCEPT !.vol_R = FAdd(@, GridSum(volume))]

update_R_integral(s) ==
    LET volume == [c \in Cells |-> FMul(FMul(s.R[c], da), dt)]
    IN  [s EXCEPT !.vol_R = FAdd(@, GridSum(volume))]

\* update_channel_discharge() that takes the velocity for the discharge
update_channel_discharge_no_area(s) ==
    WithQc(s, s.u)

update_channel_discharge(s) ==
    WithQc(s, [c \in Cells |-> FMul(s.u[c], s.A_wet[c])])

update_flood_discharge(s) ==
    LET Sf  == IF s.cfg.KINEMATIC_WAVE THEN s.S_bed ELSE s.S_free
        uf  == [c \in Cells |->
                  FDiv(FMul(FPow23(s.d_flood[c]), FSqrt(FAbs(Sf[c]))), flood_manning_n)]
        Af  == [c \in Cells |-> FMul(FMul(width_ratio, s.width[c]), s.d_flood[c])]
    IN  [s EXCEPT !.Qf = [c \in Cells |-> FMul(uf[c], Af[c])]]

update_discharge(s) ==
    IF s.cfg.FLOOD_OPTION
    THEN [s EXCEPT !.Q = [c \in Cells |-> FAdd(s.Qc[c], s.Qf[c])]]
    ELSE s

\* update_diversions() returns at its first statement
update_diversions(s) == s

\* the inflows added in one indexed add over all cells at once, in which
\* of several children of one parent only the last is added
ScatterAdd_one_group(vol, Q, k) ==
    IF k # 1 THEN vol
    ELSE [p \in Cells |->
            LET src == {c \in Cells \ noflow_IDs : parent_IDs[c] = p}
            IN  IF src = {} THEN vol[p]
                ELSE LET last == CHOOSE c \in src : \A x \in src : x <= c
                     IN  FAdd(vol[p], FMul(dt, Q[last]))]

\* vol[ d8.pk ] += dt * Q[ d8.wk ]: an indexed in-place add writes each
\* target once, with the value of the last source that names it
ScatterAdd(vol, Q, k) ==
    [p \in Cells |->
        LET src == {c \in d8_w(k) : parent_IDs[c] = p}
        IN  IF src = {} THEN vol[p]
            ELSE LET last == CHOOSE c \in src : \A x \in src : x <= c
                 IN  FAdd(vol[p], FMul(dt, Q[last]))]

RECURSIVE AddInflows(_, _, _)
AddInflows(vol, Q, k) ==
    IF k > 8 THEN vol
    ELSE AddInflows(IF d8_p_OK(k) THEN ScatterAdd(vol, Q, k) ELSE vol, Q, k + 1)

t_drain == 3600 * 24 * n_days * SCALE

\* the source term that adds R * da * dt to the channel and to the store at
\* once
SourceStep_twice(s) ==
    LET Rvol == [c \in Cells |-> FMul(FMul(s.R[c], da), dt)]
    IN  IF s.cfg.ATTENUATE
        THEN [ add    |-> Rvol,
               stored |-> [c \in Cells |-> FMax(FAdd(s.vol_stored[c], Rvol[c]), 0)] ]
        ELSE [ add |-> Rvol, stored |-> s.vol_stored ]

\* the volume that update_flow_volume() adds to the channel from R, and the
\* store it leaves behind (ATTENUATE routes R through a linear reservoir)
SourceStep(s) ==
    LET Rvol == [c \in Cells |-> FMul(FMul(s.R[c], da), dt)]
    IN  IF s.cfg.ATTENUATE
        THEN LET st1   == [c \in Cells |-> FAdd(s.vol_stored[c], Rvol[c])]
                 sides == [c \in Cells |->
                             FMin(FMul(FDiv(st1[c], t_drain), dt), st1[c])]
             IN  [ add    |-> sides,
                   stored |-> [c \in Cells |-> FMax(FSub(st1[c], sides[c]), 0)] ]
        ELSE [ add |-> Rvol, stored |-> s.vol_stored ]

\* vol after the source term, the inflows and the outflow, before the clamp
RoutedVolume(s) ==
    LET v1 == [c \in Cells |-> FAdd(s.vol[c], SourceStep(s).add[c])]
        v2 == AddInflows(v1, s.Q, 1)
    IN  [c \in Cells |-> FSub(v2[c], FMul(s.Q[c], dt))]

\* update_flow_volume() without the outflow term vol -= Q * dt
update_flow_volume_no_outflow(s) ==
    LET v1 == [c \in Cells |-> FAdd(s.vol[c], SourceStep(s).add[c])]
        v2 == AddInflows(v1, s.Q, 1)
        s1 == [s EXCEPT !.vol_stored = SourceStep(s).stored]
    IN  WithVol(s1, [c \in Cells |-> FMax(v2[c], 0)])

\* update_flow_volume() without the final clamp at zero
update_flow_volume_no_clamp(s) ==
    WithVol([s EXCEPT !.vol_stored = SourceStep(s).stored], RoutedVolume(s))

update_flow_volume(s) ==
    LET v3 == RoutedVolume(s)
        s1 == [s EXCEPT !.vol_stored = SourceStep(s).stored]
    IN  WithVol(s1, [c \in Cells |-> FMax(v3[c], 0)])

update_channel_volume(s) ==
    [s EXCEPT !.vol_chan = [c \in Cells |-> FMin(s.vol[c], s.vol_bankfull[c])]]

\* update_flood_volume() that adds the excess to the flood volume it had
update_flood_volume_accumulate(s) ==
    LET dvol == [c \in Cells |-> FSub(s.vol[c], s.vol_bankfull[c])]
    IN  [s EXCEPT !.vol_flood = [c \in Cells |-> FAdd(@[c], FMax(dvol[c], 0))]]

update_flood_volume(s) ==
    LET dvol == [c \in Cells |-> FSub(s.vol[c], s.vol_bankfull[c])]
    IN  [s EXCEPT !.vol_flood = [c \in Cells |-> FMax(dvol[c], 0)]]

\* depth of the trapezoid that holds volume v over length ds: the quadratic
\* solve for a flared bank, the linear solve for a vertical one
\* the quadratic solve with 2 * tan * vol / ds under the root
DepthQuadratic_half(v, w, a, ds) ==
    LET denom == FMul(2 * SCALE, Tan(a))
        arg   == FAdd(FDiv(FMul(denom, v), ds), FMul(w, w))
    IN  FDiv(FSub(FSqrt(arg), w), denom)

DepthQuadratic(v, w, a, ds) ==
    LET denom == FMul(2 * SCALE, Tan(a))
        arg   == FAdd(FDiv(FMul(FMul(2 * SCALE, denom), v), ds), FMul(w, w))
    IN  FDiv(FSub(FSqrt(arg), w), denom)

DepthLinear(v, w, ds) == FDiv(v, FMul(w, ds))

\* the depth solve whose scalar-angle path takes the linear solve whatever
\* the angle
DepthSolve_scalar_flat(s) ==
    IF s.cfg.SCALAR_ANGLES
    THEN [c \in Cells |-> DepthLinear(s.vol_chan[c], s.width[c], s.ds[c])]
    ELSE [c \in Cells |->
            IF s.angle[c] = 0
            THEN DepthLinear(s.vol_chan[c], s.width[c], s.ds[c])
            ELSE DepthQuadratic(s.vol_chan[c], s.width[c], s.angle[c], s.ds[c])]

\* the depth before the clamp, by the scalar-angle or the grid-angle path
DepthSolve(s) ==
    IF s.cfg.SCALAR_ANGLES
    THEN LET a == s.angle[1]
         IN  IF a = 0
             THEN [c \in Cells |-> DepthLinear(s.vol_chan[c], s.width[c], s.ds[c])]
             ELSE [c \in Cells |-> DepthQuadratic(s.vol_chan[c], s.width[c], a, s.ds[c])]
    ELSE [c \in Cells |->
            IF s.angle[c] = 0
            THEN DepthLinear(s.vol_chan[c], s.width[c], s.ds[c])
            ELSE DepthQuadratic(s.vol_chan[c], s.width[c], s.angle[c], s.ds[c])]

\* the mask cached for the friction and Froude steps
DepthMask(dgrid) == [c \in Cells |-> FGt(dgrid[c], 0)]

update_channel_depth(s) ==
    LET d1 == [c \in Cells |-> FMax(DepthSolve(s)[c], 0)]
    IN  [s EXCEPT !.d = d1, !.d_is_pos = DepthMask(d1)]

\* update_flood_depth() that spreads the flood water over the channel width
update_flood_depth_channel_width(s) ==
    LET denom == [c \in Cells |-> FMul(s.width[c], s.ds[c])]
    IN  [s EXCEPT !.d_flood =
           [c \in Cells |-> FMax(FDiv(s.vol_flood[c], denom[c]), 0)]]

update_flood_depth(s) ==
    LET denom == [c \in Cells |-> FMul(FMul(width_ratio, s.width[c]), s.ds[c])]
    IN  [s EXCEPT !.d_flood =
           [c \in Cells |-> FMax(FDiv(s.vol_flood[c], denom[c]), 0)]]

\* update_trapezoid_Rh() without the two overrides at the noflow cells
update_trapezoid_Rh_no_override(s) ==
    LET A  == [c \in Cells |-> TrapArea(s.d[c], s.width[c], s.angle[c])]
        P  == [c \in Cells |-> TrapPerim(s.d[c], s.width[c], s.angle[c])]
    IN  [s EXCEPT !.Rh = [c \in Cells |-> FDiv(A[c], P[c])], !.A_wet = A, !.P_wet = P]

update_trapezoid_Rh(s) ==
    LET A  == [c \in Cells |-> TrapArea(s.d[c], s.width[c], s.angle[c])]
        P0 == [c \in Cells |-> TrapPerim(s.d[c], s.width[c], s.angle[c])]
        P  == [c \in Cells |-> IF c \in noflow_IDs THEN SCALE ELSE P0[c]]
        Rh == [c \in Cells |-> IF c \in noflow_IDs THEN 0 ELSE FDiv(A[c], P[c])]
    IN  [s EXCEPT !.Rh = Rh, !.A_wet = A, !.P_wet = P]

update_free_surface_slope(s) ==
    LET total_d == [c \in Cells |->
                      IF s.cfg.FLOOD_OPTION THEN FAdd(s.d[c], s.d_flood[c]) ELSE s.d[c]]
        delta_d == [c \in Cells |-> FSub(total_d[c], total_d[parent_IDs[c]])]
    IN  [s EXCEPT !.S_free =
           [c \in Cells |-> FAdd(s.S_bed[c], FDiv(delta_d[c], s.ds[c]))]]

\* the slope that drives friction and velocity
FrictionSlope(s) ==
    IF s.cfg.KINEMATIC_WAVE THEN s.S_bed ELSE [c \in Cells |-> FAbs(s.S_free[c])]

update_shear_stress(s) ==
    [s EXCEPT !.tau =
        [c \in Cells |->
            FMul(FMul(FMul(rho_H2O, g_const), s.d[c]), FrictionSlope(s)[c])]]

update_shear_speed(s) ==
    [s EXCEPT !.u_star = [c \in Cells |-> FSqrt(FDiv(s.tau[c], rho_H2O))]]

\* (aval / z0val) * d, kept above 1.1 before the logarithm
Smoothness(s) ==
    [c \in Cells |->
        FMax(FMul(FDiv(aval, s.z0val), s.d[c]), (110 * SCALE) \div 100)]

ManningF(s) ==
    LET n2 == FMul(s.nval, s.nval)
    IN  [c \in Cells |->
            IF s.d_is_pos[c] THEN FMul(g_const, FDiv(n2, FPow13(s.d[c]))) ELSE 0]

LawOfWallF(s) ==
    [c \in Cells |->
        IF s.d_is_pos[c]
        THEN LET q == FDiv(kappa, FLog(Smoothness(s)[c])) IN FMul(q, q)
        ELSE 0]

\* update_friction_factor() that leaves f as it was where the depth is zero
update_friction_factor_keep(s) ==
    LET keep(fn) == [c \in Cells |-> IF s.d_is_pos[c] THEN fn[c] ELSE s.f[c]]
        s1 == IF s.cfg.MANNING THEN [s EXCEPT !.f = keep(ManningF(s))] ELSE s
    IN  IF s.cfg.LAW_OF_WALL THEN [s1 EXCEPT !.f = keep(LawOfWallF(s1))] ELSE s1

update_friction_factor(s) ==
    LET s1 == IF s.cfg.MANNING THEN [s EXCEPT !.f = ManningF(s)] ELSE s
    IN  IF s.cfg.LAW_OF_WALL THEN [s1 EXCEPT !.f = LawOfWallF(s1)] ELSE s1

\* the slope the velocity closures read, before they take its absolute value
FrictionSlopeRaw(s) == IF s.cfg.KINEMATIC_WAVE THEN s.S_bed ELSE s.S_free

manning_formula(s) ==
    [c \in Cells |->
        FDiv(FMul(FPow23(s.Rh[c]), FSqrt(FAbs(FrictionSlopeRaw(s)[c]))), s.nval)]

law_const == FDiv(FSqrt(g_const), kappa)

law_of_the_wall(s) ==
    [c \in Cells |->
        FMul(FMul(law_const, FSqrt(FMul(s.Rh[c], FAbs(FrictionSlopeRaw(s)[c])))),
             FLog(Smoothness(s)[c]))]

\* update_velocity() of the base class does nothing.  A routing-scheme
\* subclass overrides it with the closure of the active friction family,
\* forced to 0 where the cached mask says the depth is not positive.
update_velocity(s) ==
    IF ~s.cfg.OVERRIDE THEN s
    ELSE LET u1 == IF s.cfg.LAW_OF_WALL THEN law_of_the_wall(s)
                   ELSE IF s.cfg.MANNING THEN manning_formula(s)
                   ELSE s.u
         IN  [s EXCEPT !.u = [c \in Cells |-> IF s.d_is_pos[c] THEN u1[c] ELSE 0]]

update_velocity_on_edges(s) ==
    [s EXCEPT !.u = [c \in Cells |-> IF c \in noflow_IDs THEN 0 ELSE @[c]]]

update_froude_number(s) ==
    [s EXCEPT !.froude =
        [c \in Cells |->
            IF s.d_is_pos[c]
            THEN FDiv(s.u[c], FSqrt(FMul(g_const, s.d[c])))
            ELSE 0]]

\* update_outlet_values() that assigns new 0-d arrays to the attributes
\* instead of filling the ones made at initialization
update_outlet_values_rebind(s) ==
    LET n == Len(s.obj)
    IN  [s EXCEPT !.Q_outlet = s.Q[outlet_ID],
                  !.u_outlet = s.u[outlet_ID],
                  !.d_outlet = s.d[outlet_ID],
                  !.f_outlet = s.f[outlet_ID],
                  !.ref = [Q_outlet |-> n + 1, u_outlet |-> n + 2,
                           d_outlet |-> n + 3, f_outlet |-> n + 4],
                  !.obj = @ \o <<s.Q[outlet_ID], s.u[outlet_ID],
                                 s.d[outlet_ID], s.f[outlet_ID]>>]

\* fill() writes into the array the attribute is bound to
update_outlet_values(s) ==
    [s EXCEPT !.Q_outlet = s.Q[outlet_ID],
              !.u_outlet = s.u[outlet_ID],
              !.d_outlet = s.d[outlet_ID],
              !.f_outlet = s.f[outlet_ID],
              !.obj = [@ EXCEPT ![s.ref.Q_outlet] = s.Q[outlet_ID],
                                ![s.ref.u_outlet] = s.u[outlet_ID],
                                ![s.ref.d_outlet] = s.d[outlet_ID],
                                ![s.ref.f_outlet] = s.f[outlet_ID]]]

\* update_peak_values() that also takes a value equal to the peak
update_peak_values_ge(s) ==
    LET s1 == IF FGe(s.Q_outlet, s.Q_peak)
              THEN [s EXCEPT !.Q_peak = s.Q_outlet, !.T_peak = s.time_min] ELSE s
        s2 == IF FGe(s1.u_outlet, s1.u_peak)
              THEN [s1 EXCEPT !.u_peak = s1.u_outlet, !.Tu_peak = s1.time_min] ELSE s1
    IN  IF FGe(s2.d_outlet, s2.d_peak)
        THEN [s2 EXCEPT !.d_peak = s2.d_outlet, !.Td_peak = s2.time_min] ELSE s2

update_peak_values(s) ==
    LET s1 == IF FGt(s.Q_outlet, s.Q_peak)
              THEN [s EXCEPT !.Q_peak = s.Q_outlet, !.T_peak = s.time_min] ELSE s
        s2 == IF FGt(s1.u_outlet, s1.u_peak)
              THEN [s1 EXCEPT !.u_peak = s1.u_outlet, !.Tu_peak = s1.time_min] ELSE s1
    IN  IF FGt(s2.d_outlet, s2.d_peak)
        THEN [s2 EXCEPT !.d_peak = s2.d_outlet, !.Td_peak = s2.time_min] ELSE s2

update_Q_out_integral(s) ==
    [s EXCEPT !.vol_Q = FAdd(@, FMul(s.Q_outlet, dt))]

\* update_edge_values() that also adds the flood volume of the sink cells
update_edge_values_double_count(s) ==
    LET vol_edge == FAdd(SumOver(s.vol, noflow_IDs),
                         IF s.cfg.FLOOD_OPTION THEN SumOver(s.vol_flood, noflow_IDs) ELSE 0)
        zero(gr) == [c \in Cells |-> IF c \in noflow_IDs THEN 0 ELSE gr[c]]
        s1 == WithVol([s EXCEPT !.vol_edge = FAdd(@, vol_edge)], zero(s.vol))
        s2 == [s1 EXCEPT !.d = zero(s1.d)]
    IN  IF s.cfg.FLOOD_OPTION
        THEN [s2 EXCEPT !.vol_flood = zero(s2.vol_flood), !.d_flood = zero(s2.d_flood)]
        ELSE s2

\* update_edge_values() that stores this tick's edge volume instead of
\* adding it to the total
update_edge_values_reset(s) ==
    LET vol_edge == SumOver(s.vol, noflow_IDs)
        zero(gr) == [c \in Cells |-> IF c \in noflow_IDs THEN 0 ELSE gr[c]]
        s1 == WithVol([s EXCEPT !.vol_edge = vol_edge], zero(s.vol))
        s2 == [s1 EXCEPT !.d = zero(s1.d)]
    IN  IF s.cfg.FLOOD_OPTION
        THEN [s2 EXCEPT !.vol_flood = zero(s2.vol_flood), !.d_flood = zero(s2.d_flood)]
        ELSE s2

\* update_edge_values() that leaves the flood water of the sink cells alone
update_edge_values_keeps_flood(s) ==
    LET vol_edge == SumOver(s.vol, noflow_IDs)
        zero(gr) == [c \in Cells |-> IF c \in noflow_IDs THEN 0 ELSE gr[c]]
        s1 == WithVol([s EXCEPT !.vol_edge = FAdd(@, vol_edge)], zero(s.vol))
    IN  [s1 EXCEPT !.d = zero(s1.d)]

update_edge_values(s) ==
    LET vol_edge == SumOver(s.vol, noflow_IDs)
        zero(gr) == [c \in Cells |-> IF c \in noflow_IDs THEN 0 ELSE gr[c]]
        s1 == WithVol([s EXCEPT !.vol_edge = FAdd(@, vol_edge)], zero(s.vol))
        s2 == [s1 EXCEPT !.d = zero(s1.d)]
    IN  IF s.cfg.FLOOD_OPTION
        THEN [s2 EXCEPT !.vol_flood = zero(s2.vol_flood), !.d_flood = zero(s2.d_flood)]
        ELSE s2

\* --------------------------------------------------------- stability guard
IsNeg(x) == FLt(x, 0)

\* TRUE when the depth grid passes, FALSE when check_flow_depth() raises
check_flow_depth(s) ==
    LET nneg == Cardinality({c \in Cells : IsNeg(s.d[c])})
        ninf == Cardinality({c \in Cells : IsInf(s.d[c])})
    IN  (nneg = 0) /\ (ninf = 0)

\* TRUE when the velocity grid passes, FALSE when check_flow_velocity() raises
check_flow_velocity(s) ==
    LET nneg == Cardinality({c \in Cells : IsNeg(s.u[c])})
        nnan == Cardinality({c \in Cells : IsNaN(s.u[c])})
        ninf == Cardinality({c \in Cells : IsInf(s.u[c])})
    IN  (nneg = 0) /\ (nnan = 0) /\ (ninf = 0)

\* the clock of a component (BMI_base.update_time)
update_time(s) ==
    [s EXCEPT !.time_index = @ + 1,
              !.time_min   = FDiv(FMul((s.time_index + 1) * SCALE, dt), 60 * SCALE)]

\* ------------------------------------------------------------ the driver
\* stop settings of the driver's CFG file
Qp_fraction  == (5 * SCALE) \div 100
n_steps      == MaxTicks
T_stop_model == FDiv(FMul(MaxTicks * SCALE, dt), 60 * SCALE)
StopMethods  == {"Q_peak_fraction", "Until_model_time", "Until_n_steps"}

steady_tol  == SCALE \div 100000
nonzero_tol == SCALE \div 100000
n_same_max  == 499

NewDriver ==
    [ status |-> "created", DONE |-> FALSE, stop_method |-> "Until_n_steps",
      time_index |-> 0, time_min |-> 0, T_stop |-> 0,
      Q_last |-> 0, n_same |-> 0,
      outlet_ref |-> [Q_outlet |-> 0, u_outlet |-> 0, d_outlet |-> 0, f_outlet |-> 0] ]

\* the driver reads Q_outlet and Q_peak of the channels component by reference
initialize_stop_vars(dr, s) ==
    [dr EXCEPT !.n_same = 0,
               !.outlet_ref = s.ref,
               !.Q_last = s.Q_outlet,
               !.T_stop = IF dr.stop_method = "Q_peak_fraction" THEN 0
                          ELSE IF dr.stop_method = "Until_model_time" THEN T_stop_model
                          ELSE IF dr.stop_method = "Until_n_steps"
                          THEN FDiv(FMul(n_steps * SCALE, dt), 60 * SCALE)
                          ELSE @]

\* n_same after check_steady_state()
SteadyCount(dr, s) ==
    IF FLe(FAbs(FSub(s.Q_outlet, dr.Q_last)), steady_tol) THEN dr.n_same + 1 ELSE 0

\* check_steady_state() that also takes a discharge of zero for steady
check_steady_state_zero_too(dr, s) ==
    /\ dr.stop_method = "Q_peak_fraction"
    /\ SteadyCount(dr, s) > n_same_max

check_steady_state(dr, s) ==
    /\ dr.stop_method = "Q_peak_fraction"
    /\ FGt(s.Q_outlet, nonzero_tol)
    /\ SteadyCount(dr, s) > n_same_max

\* check_finished() raises RuntimeError when no stop method matches
check_finished_raises(dr) == dr.stop_method \notin StopMethods

\* check_finished() that stops one step late under 'Until_n_steps' and does
\* not require a positive Q_outlet under 'Q_peak_fraction'
check_finished_late(dr, s) ==
    LET FALLING_LIMB == FGt(dr.Q_last, s.Q_outlet)
        Q_stop   == FMul(s.Q_peak, Qp_fraction)
        FINISHED == IF dr.stop_method = "Q_peak_fraction"
                    THEN (IF FALLING_LIMB
                          THEN FLe(s.Q_outlet, Q_stop)
                          ELSE dr.DONE)
                    ELSE IF dr.stop_method = "Until_model_time"
                    THEN FGe(dr.time_min, dr.T_stop)
                    ELSE dr.time_index > n_steps
        STEADY   == check_steady_state(dr, s)
    IN  [dr EXCEPT !.n_same = SteadyCount(dr, s),
                   !.Q_last = s.Q_outlet,
                   !.DONE   = FINISHED \/ STEADY]

check_finished(dr, s) ==
    LET FALLING_LIMB == FGt(dr.Q_last, s.Q_outlet)
        Q_stop   == FMul(s.Q_peak, Qp_fraction)
        FINISHED == IF dr.stop_method = "Q_peak_fraction"
                    THEN (IF FALLING_LIMB
                          THEN FLe(s.Q_outlet, Q_stop) /\ FGt(s.Q_outlet, 0)
                          ELSE dr.DONE)
                    ELSE IF dr.stop_method = "Until_model_time"
                    THEN FGe(dr.time_min, dr.T_stop)
                    ELSE IF dr.stop_method = "Until_n_steps"
                    THEN dr.time_index >= n_steps
                    ELSE dr.DONE
        STEADY   == check_steady_state(dr, s)
        FAILED   == FALSE
    IN  [dr EXCEPT !.n_same = SteadyCount(dr, s),
                   !.status = IF FAILED THEN "failed" ELSE @,
                   !.Q_last = s.Q_outlet,
                   !.DONE   = FINISHED \/ STEADY \/ FAILED]

\* update() of the driver: advance its clock, which evaluates the stop rule
driver_update(dr, s) ==
    LET d1 == [dr EXCEPT !.status = "updating"]
        d2 == [d1 EXCEPT !.time_index = @ + 1,
                         !.time_min = FDiv(FMul((d1.time_index + 1) * SCALE, dt), 60 * SCALE)]
    IN  [check_finished(d2, s) EXCEPT !.status = "updated"]

\* ------------------------------------------------- fluxes from providers
Only(S, v) == [c \in Cells |-> IF c \in S THEN v ELSE 0]

\* (Infil is the infiltration rate, IN in the source)
Flux(P, SM, ET, Infil, nd) ==
    [ P_rain |-> P, SM |-> SM, GW |-> Grid(0), MR |-> Grid(0),
      ET |-> ET, Infil |-> Infil, ET_ndim |-> nd ]

\* what the meteorology, snow, evaporation and infiltration components
\* may hand over in one tick: finite rates
FluxSet ==
    { Flux(Grid(0), Grid(0), Grid(0), Grid(0), 2),
      Flux(Only({1, NCells}, 3 * SCALE), Grid(0), Grid(SCALE), Grid(0), 2),
      Flux(Grid(SCALE), Only({2}, 2 * SCALE), Grid(0), Grid(0), 2),
      Flux(Grid(0), Grid(0), Grid(0), Grid(2 * SCALE), 2),
      Flux(Grid(SCALE), Grid(0), Grid(SCALE), Grid(0), 0) }

\* a provider that has gone unstable hands over NaN or an infinite rate
FluxSetNF ==
    { Flux(Only({1}, NaN), Grid(0), Grid(0), Grid(0), 2),
      Flux(Only({1}, PInf), Grid(0), Grid(0), Grid(0), 2),
      Flux(Only({NCells}, NaN), Grid(0), Grid(0), Grid(0), 2) }

\* ------------------------------------------------------------------ runs
\* clamped: the routing step of the current tick raised some cell's volume
\* to zero; clamped_ever: some tick so far did;
\* status_log: the values assigned to the component's status so far;
\* samples: the outlet values and the model time of every tick so far;
\* trace: the methods update() has called so far in the current tick
NewHist == [ ticks |-> 0, vol0 |-> Grid(0), vol_edge0 |-> 0, clamped |-> FALSE,
             clamped_ever |-> FALSE, status_log |-> << >>,
             samples |-> << >>,
             u0 |-> Grid(0), A_wet0 |-> Grid(0), d_flood0 |-> Grid(0),
             S_free0 |-> Grid(0),
             trace |-> << >> ]

NoFlux == Flux(Grid(0), Grid(0), Grid(0), Grid(0), 2)

Init ==
    /\ pc   = "constructed"
    /\ self = NewComponent
    /\ env  = NoFlux
    /\ drv  = NewDriver
    /\ hist = NewHist

\* initialize() of the channels component
initialize_from(s, c, d0, a, slope) ==
    LET s0 == [s EXCEPT !.cfg = c, !.status = "initializing",
                        !.time_index = 0, !.time_min = 0]
    IN  IF c.comp_status = "Disabled"
        THEN [s0 EXCEPT !.DONE = TRUE, !.status = "initialized"]
        ELSE LET s1 == [s0 EXCEPT !.width = width_in,
                                  !.angle = angle_in(c.SCALAR_ANGLES, a),
                                  !.S_bed = slope,
                                  !.nval = nval_in, !.z0val = z0val_in,
                                  !.d_bankfull = d_bankfull_in]
             IN  [initialize_computed_vars(s1, d0) EXCEPT !.status = "initialized"]

initialize(s, c, d0, a) == initialize_from(s, c, d0, a, slope_in)

\* the values initialize() assigns to the status, in order
initialize_statuses == <<"initializing", "initialized">>

Step_initialize ==
    /\ pc = "constructed"
    /\ \E c \in Configs, ic \in InitCases :
          self' = initialize(self, c, ic[1], ic[2])
    /\ hist' = [hist EXCEPT !.status_log = @ \o initialize_statuses]
    /\ pc' = "driver_initialize"
    /\ UNCHANGED <<env, drv>>

Step_driver_initialize ==
    /\ pc = "driver_initialize"
    /\ \E m \in StopMethods :
          drv' = [initialize_stop_vars([drv EXCEPT !.stop_method = m], self)
                    EXCEPT !.status = "initialized", !.DONE = FALSE,
                           !.time_index = 0, !.time_min = 0]
    /\ pc' = "idle"
    /\ UNCHANGED <<self, env, hist>>

\* the providers run their own update() and leave their fluxes for this tick
SetFluxes(F) ==
    /\ pc = "idle"
    /\ hist.ticks < MaxTicks
    /\ ~drv.DONE
    /\ \E e \in F : env' = e
    /\ pc' = "update"
    /\ UNCHANGED <<self, drv, hist>>

\* entry of update(): a disabled component returns at once
Step_update ==
    /\ pc = "update"
    /\ pc' = IF self.cfg.comp_status = "Disabled" THEN "driver_update" ELSE "update_R"
    /\ hist' = [hist EXCEPT !.ticks = @ + 1, !.vol0 = self.vol,
                            !.vol_edge0 = self.vol_edge, !.clamped = FALSE,
                            !.u0 = self.u, !.A_wet0 = self.A_wet,
                            !.d_flood0 = self.d_flood, !.S_free0 = self.S_free,
                            !.trace = << >>]
    /\ UNCHANGED <<self, env, drv>>

Step_update_R ==
    /\ pc = "update_R"
    /\ self' = update_R(self, env)
    /\ env'  = update_R_env(self, env)
    /\ pc'   = "update_R_integral"
    /\ hist' = [hist EXCEPT !.trace = Append(@, "update_R")]
    /\ UNCHANGED drv

Step_update_R_integral ==
    /\ pc = "update_R_integral"
    /\ self' = update_R_integral(self)
    /\ pc'   = "update_channel_discharge"
    /\ hist' = [hist EXCEPT !.trace = Append(@, "update_R_integral")]
    /\ UNCHANGED <<env, drv>>

Step_update_channel_discharge ==
    /\ pc = "update_channel_discharge"
    /\ self' = update_channel_discharge(self)
    /\ pc'   = IF self.cfg.FLOOD_OPTION THEN "update_flood_discharge" ELSE "update_diversions"
    /\ hist' = [hist EXCEPT !.trace = Append(@, "update_channel_discharge")]
    /\ UNCHANGED <<env, drv>>

Step_update_flood_discharge ==
    /\ pc = "update_flood_discharge"
    /\ self' = update_flood_discharge(self)
    /\ pc'   = "update_discharge"
    /\ hist' = [hist EXCEPT !.trace = Append(@, "update_flood_discharge")]
    /\ UNCHANGED <<env, drv>>

Step_update_discharge ==
    /\ pc = "update_discharge"
    /\ self' = update_discharge(self)
    /\ pc'   = "update_diversions"
    /\ hist' = [hist EXCEPT !.trace = Append(@, "update_discharge")]
    /\ UNCHANGED <<env, drv>>

Step_update_diversions ==
    /\ pc = "update_diversions"
    /\ self' = update_diversions(self)
    /\ pc'   = "update_flow_volume"
    /\ hist' = [hist EXCEPT !.trace = Append(@, "update_diversions")]
    /\ UNCHANGED <<env, drv>>

Step_update_flow_volume ==
    /\ pc = "update_flow_volume"
    /\ self' = update_flow_volume(self)
    /\ hist' = [hist EXCEPT !.clamped = \E c \in Cells : FLt(RoutedVolume(self)[c], 0),
                            !.clamped_ever =
                               @ \/ \E c \in Cells : FLt(RoutedVolume(self)[c], 0),
                            !.trace = Append(@, "update_flow_volume")]
    /\ pc'   = IF self.cfg.FLOOD_OPTION THEN "update_channel_volume" ELSE "update_channel_depth"
    /\ UNCHANGED <<env, drv>>

Step_update_channel_volume ==
    /\ pc = "update_channel_volume"
    /\ self' = update_channel_volume(self)
    /\ pc'   = "update_flood_volume"
    /\ hist' = [hist EXCEPT !.trace = Append(@, "update_channel_volume")]
    /\ UNCHANGED <<env, drv>>

Step_update_flood_volume ==
    /\ pc = "update_flood_volume"
    /\ self' = update_flood_volume(self)
    /\ pc'   = "update_channel_depth"
    /\ hist' = [hist EXCEPT !.trace = Append(@, "update_flood_volume")]
    /\ UNCHANGED <<env, drv>>

Step_update_channel_depth ==
    /\ pc = "update_channel_depth"
    /\ self' = update_channel_depth(self)
    /\ pc'   = IF self.cfg.FLOOD_OPTION THEN "update_flood_depth"
               ELSE IF ~self.cfg.DYNAMIC_WAVE THEN "update_trapezoid_Rh"
               ELSE "update_free_surface_slope"
    /\ hist' = [hist EXCEPT !.trace = Append(@, "update_channel_depth")]
    /\ UNCHANGED <<env, drv>>

Step_update_flood_depth ==
    /\ pc = "update_flood_depth"
    /\ self' = update_flood_depth(self)
    /\ pc'   = IF ~self.cfg.DYNAMIC_WAVE THEN "update_trapezoid_Rh"
               ELSE "update_free_surface_slope"
    /\ hist' = [hist EXCEPT !.trace = Append(@, "update_flood_depth")]
    /\ UNCHANGED <<env, drv>>

Step_update_trapezoid_Rh ==
    /\ pc = "update_trapezoid_Rh"
    /\ self' = update_trapezoid_Rh(self)
    /\ pc'   = IF ~self.cfg.KINEMATIC_WAVE THEN "update_free_surface_slope"
               ELSE "update_shear_stress"
    /\ hist' = [hist EXCEPT !.trace = Append(@, "update_trapezoid_Rh")]
    /\ UNCHANGED <<env, drv>>

Step_update_free_surface_slope ==
    /\ pc = "update_free_surface_slope"
    /\ self' = update_free_surface_slope(self)
    /\ pc'   = "update_shear_stress"
    /\ hist' = [hist EXCEPT !.trace = Append(@, "update_free_surface_slope")]
    /\ UNCHANGED <<env, drv>>

\* update() that goes from the shear stress straight to the friction factor
Step_update_shear_stress_skips_speed ==
    /\ pc = "update_shear_stress"
    /\ self' = update_shear_stress(self)
    /\ pc'   = "update_friction_factor"
    /\ hist' = [hist EXCEPT !.trace = Append(@, "update_shear_stress")]
    /\ UNCHANGED <<env, drv>>

Step_update_shear_stress ==
    /\ pc = "update_shear_stress"
    /\ self' = update_shear_stress(self)
    /\ pc'   = "update_shear_speed"
    /\ hist' = [hist EXCEPT !.trace = Append(@, "update_shear_stress")]
    /\ UNCHANGED <<env, drv>>

Step_update_shear_speed ==
    /\ pc = "update_shear_speed"
    /\ self' = update_shear_speed(self)
    /\ pc'   = "update_friction_factor"
    /\ hist' = [hist EXCEPT !.trace = Append(@, "update_shear_speed")]
    /\ UNCHANGED <<env, drv>>

Step_update_friction_factor ==
    /\ pc = "update_friction_factor"
    /\ self' = update_friction_factor(self)
    /\ pc'   = "update_velocity"
    /\ hist' = [hist EXCEPT !.trace = Append(@, "update_friction_factor")]
    /\ UNCHANGED <<env, drv>>

Step_update_velocity ==
    /\ pc = "update_velocity"
    /\ self' = update_velocity(self)
    /\ pc'   = "update_velocity_on_edges"
    /\ hist' = [hist EXCEPT !.trace = Append(@, "update_velocity")]
    /\ UNCHANGED <<env, drv>>

Step_update_velocity_on_edges ==
    /\ pc = "update_velocity_on_edges"
    /\ self' = update_velocity_on_edges(self)
    /\ pc'   = "update_froude_number"
    /\ hist' = [hist EXCEPT !.trace = Append(@, "update_velocity_on_edges")]
    /\ UNCHANGED <<env, drv>>

Step_update_froude_number ==
    /\ pc = "update_froude_number"
    /\ self' = update_froude_number(self)
    /\ pc'   = "update_outlet_values"
    /\ hist' = [hist EXCEPT !.trace = Append(@, "update_froude_number")]
    /\ UNCHANGED <<env, drv>>

Step_update_outlet_values ==
    /\ pc = "update_outlet_values"
    /\ self' = update_outlet_values(self)
    /\ hist' = [hist EXCEPT !.samples =
                   Append(@, [Q |-> self'.Q_outlet, u |-> self'.u_outlet,
                              d |-> self'.d_outlet, t |-> self.time_min]),
                            !.trace = Append(@, "update_outlet_values")]
    /\ pc'   = "update_peak_values"
    /\ UNCHANGED <<env, drv>>

Step_update_peak_values ==
    /\ pc = "update_peak_values"
    /\ self' = update_peak_values(self)
    /\ pc'   = "update_Q_out_integral"
    /\ hist' = [hist EXCEPT !.trace = Append(@, "update_peak_values")]
    /\ UNCHANGED <<env, drv>>

Step_update_Q_out_integral ==
    /\ pc = "update_Q_out_integral"
    /\ self' = update_Q_out_integral(self)
    /\ pc'   = "update_edge_values"
    /\ hist' = [hist EXCEPT !.trace = Append(@, "update_Q_out_integral")]
    /\ UNCHANGED <<env, drv>>

Step_update_edge_values ==
    /\ pc = "update_edge_values"
    /\ self' = update_edge_values(self)
    /\ pc'   = "check_stability"
    /\ hist' = [hist EXCEPT !.trace = Append(@, "update_edge_values")]
    /\ UNCHANGED <<env, drv>>

\* the stability guard of update(): a failed check raises out of update(),
\* a passed one leaves OK = True
check_stability(s) ==
    IF s.cfg.CHECK_STABILITY
    THEN check_flow_depth(s) /\ check_flow_velocity(s)
    ELSE TRUE

Step_check_stability ==
    /\ pc = "check_stability"
    /\ pc' = IF check_stability(self) THEN "write_output_files" ELSE "raised"
    /\ self' = [self EXCEPT !.OK = TRUE]
    /\ hist' = [hist EXCEPT !.trace =
                   IF ~self.cfg.CHECK_STABILITY THEN @
                   ELSE IF ~check_flow_depth(self) THEN Append(@, "check_flow_depth")
                   ELSE @ \o <<"check_flow_depth", "check_flow_velocity">>]
    /\ UNCHANGED <<env, drv>>

\* write_output_files() changes no model variable
write_output_files(s) == s

Step_write_output_files ==
    /\ pc = "write_output_files"
    /\ self' = write_output_files(self)
    /\ pc'   = "update_time"
    /\ hist' = [hist EXCEPT !.trace = Append(@, "write_output_files")]
    /\ UNCHANGED <<env, drv>>

Step_update_time ==
    /\ pc = "update_time"
    /\ self' = update_time(self)
    /\ pc'   = "set_status"
    /\ hist' = [hist EXCEPT !.trace = Append(@, "update_time")]
    /\ UNCHANGED <<env, drv>>

\* the last statement of update()
set_status(s) ==
    IF s.OK THEN [s EXCEPT !.status = "updated"]
    ELSE [s EXCEPT !.status = "failed", !.DONE = TRUE]

Step_set_status ==
    /\ pc = "set_status"
    /\ self' = set_status(self)
    /\ hist' = [hist EXCEPT !.status_log = Append(@, self'.status)]
    /\ pc'   = "driver_update"
    /\ UNCHANGED <<env, drv>>

Step_driver_update ==
    /\ pc = "driver_update"
    /\ drv' = driver_update(drv, self)
    /\ pc'  = IF drv'.DONE THEN "finalize" ELSE "idle"
    /\ UNCHANGED <<self, env, hist>>

\* finalize() that does not test whether the component is disabled
finalize_no_test(s) ==
    [update_total_flood_water_volume(update_total_channel_water_volume(s))
        EXCEPT !.status = "finalized"]

finalize(s) ==
    IF s.cfg.comp_status = "Disabled" THEN s
    ELSE [update_total_flood_water_volume(update_total_channel_water_volume(s))
            EXCEPT !.status = "finalized"]

\* the values finalize() assigns to the status, in order
finalize_statuses(s) ==
    IF s.cfg.comp_status = "Disabled" THEN << >> ELSE <<"finalizing", "finalized">>

Step_finalize ==
    /\ pc = "finalize"
    /\ self' = finalize(self)
    /\ hist' = [hist EXCEPT !.status_log = @ \o finalize_statuses(self)]
    /\ drv'  = [drv EXCEPT !.status = "finalized"]
    /\ pc'   = "finalized"
    /\ UNCHANGED env

Step_set_fluxes    == SetFluxes(FluxSet)
Step_set_fluxes_nf == SetFluxes(FluxSet \cup FluxSetNF)

Steps ==
    \/ Step_initialize
    \/ Step_driver_initialize
    \/ Step_update
    \/ Step_update_R
    \/ Step_update_R_integral
    \/ Step_update_channel_discharge
    \/ Step_update_flood_discharge
    \/ Step_update_discharge
    \/ Step_update_diversions
    \/ Step_update_flow_volume
    \/ Step_update_channel_volume
    \/ Step_update_flood_volume
    \/ Step_update_channel_depth
    \/ Step_update_flood_depth
    \/ Step_update_trapezoid_Rh
    \/ Step_update_free_surface_slope
    \/ Step_update_shear_stress
    \/ Step_update_shear_speed
    \/ Step_update_friction_factor
    \/ Step_update_velocity
    \/ Step_update_velocity_on_edges
    \/ Step_update_froude_number
    \/ Step_update_outlet_values
    \/ Step_update_peak_values
    \/ Step_update_Q_out_integral
    \/ Step_update_edge_values
    \/ Step_check_stability
    \/ Step_write_output_files
    \/ Step_update_time
    \/ Step_set_status
    \/ Step_driver_update
    \/ Step_finalize

Next   == Step_set_fluxes \/ Steps
NextNF == Step_set_fluxes_nf \/ Steps

\* runs with finite fluxes
Spec   == Init /\ [][Next]_vars

\* runs in which a provider may hand over NaN or an infinite rate
SpecNF == Init /\ [][NextNF]_vars

\* ------------------------------------------- the depth solver on its own
\* A component whose depth d was set by hand for given width and bank angle,
\* with vol_chan = d * (width + d * tan(angle)) * ds as initialize_computed_vars()
\* computes it; cells 1 and 2 take every width and depth of the sets below.
DepthWidths == {0, SCALE, 2 * SCALE}
DepthDepths == {0, SCALE, 2 * SCALE}

DepthCase(w1, w2, d1, d2, scalar, a) ==
    LET w  == [c \in Cells |-> IF c = 1 THEN w1 ELSE IF c = 2 THEN w2 ELSE 2 * SCALE]
        dd == [c \in Cells |-> IF c = 1 THEN d1 ELSE IF c = 2 THEN d2 ELSE SCALE]
        an == angle_in(scalar, a)
        c0 == CHOOSE c \in Configs : c.comp_status = "Enabled" /\ ~c.FLOOD_OPTION
        vc == [c \in Cells |-> FMul(TrapArea(dd[c], w[c], an[c]), d8_ds[c])]
    IN  WithVol([NewComponent EXCEPT
                    !.cfg = [c0 EXCEPT !.SCALAR_ANGLES = scalar],
                    !.status = "initialized",
                    !.width = w, !.angle = an, !.ds = d8_ds, !.d = dd], vc)

InitDepth ==
    /\ pc = "depth_input"
    /\ \E w1 \in DepthWidths, w2 \in DepthWidths, d1 \in DepthDepths, d2 \in DepthDepths,
          scalar \in BOOLEAN, a \in AngleSet :
          self = DepthCase(w1, w2, d1, d2, scalar, a)
    /\ env  = NoFlux
    /\ drv  = NewDriver
    /\ hist = NewHist

Step_depth_inversion ==
    /\ pc = "depth_input"
    /\ self' = update_channel_depth(self)
    /\ pc'   = "depth_output"
    /\ UNCHANGED <<env, drv, hist>>

SpecDepth == InitDepth /\ [][Step_depth_inversion]_vars

\* --------------------------------------- initialization from a slope grid
\* slopes a slope file may hold: two valid ones, zero, negative, NaN, infinite
SlopeSet == { (4 * SCALE) \div 100, (2 * SCALE) \div 100, 0,
              0 - ((1 * SCALE) \div 100), NaN, PInf }

\* a component whose CFG file and slope grid have been chosen; S_bed holds
\* the slopes as they stand in the file
InitSlope ==
    /\ pc = "slope_input"
    /\ \E c \in Configs, sl \in [Cells -> SlopeSet] :
          self = [NewComponent EXCEPT !.cfg = c, !.S_bed = sl]
    /\ env  = NoFlux
    /\ drv  = NewDriver
    /\ hist = NewHist

\* initialize() on that slope grid, dry channels, vertical banks
Step_slope_initialize ==
    /\ pc = "slope_input"
    /\ LET fails == /\ self.cfg.comp_status = "Enabled"
                    /\ self.cfg.KINEMATIC_WAVE
                    /\ remove_bad_slopes_fails(self.S_bed)
       IN  /\ self' = IF fails THEN [self EXCEPT !.status = "initializing"]
                      ELSE initialize_from(self, self.cfg, Grid(0), 0, self.S_bed)
           /\ pc' = IF fails THEN "raised" ELSE "slope_output"
    /\ UNCHANGED <<env, drv, hist>>

SpecSlope == InitSlope /\ [][Step_slope_initialize]_vars

\* ----------------------------------------- friction under the CFG flags
\* MANNING and LAW_OF_WALL are two separate flags of the CFG file: a kinematic
\* wave component with each of the four settings
FrictionConfigs ==
    { [Cfg("Enabled", FALSE, FALSE, TRUE, man, TRUE, FALSE, TRUE, TRUE)
          EXCEPT !.LAW_OF_WALL = law] : man \in BOOLEAN, law \in BOOLEAN }

FrictionDepths == {0, SCALE, 2 * SCALE}

InitFriction ==
    /\ pc = "friction_cfg"
    /\ \E c \in FrictionConfigs : self = [NewComponent EXCEPT !.cfg = c]
    /\ env  = NoFlux
    /\ drv  = NewDriver
    /\ hist = NewHist

\* initialize() from an initial depth grid, then the depth step that caches
\* the mask of wet cells
Step_friction_initialize ==
    /\ pc = "friction_cfg"
    /\ \E d0 \in [Cells -> FrictionDepths] :
          self' = update_channel_depth(initialize_from(self, self.cfg, d0, 0, slope_in))
    /\ pc' = "friction_input"
    /\ UNCHANGED <<env, drv, hist>>

Step_friction ==
    /\ pc = "friction_input"
    /\ self' = update_friction_factor(self)
    /\ pc'   = "friction_output"
    /\ UNCHANGED <<env, drv, hist>>

SpecFriction == InitFriction /\ [][Step_friction_initialize \/ Step_friction]_vars

\* ------------------------------------------------- the stop rule alone
\* outlet discharges around the stop threshold Qp_fraction * Q_peak
StopQ == { 0, (5 * SCALE) \div 100, (10 * SCALE) \div 100, (11 * SCALE) \div 100,
           SCALE, 2 * SCALE }

\* a run in progress: the driver was initialized with stop method m (a CFG
\* string, possibly none of the three known ones), has made k steps and
\* remembers Q_last; the channels component has just sampled Q_outlet and
\* holds the peak of all samples
InitStop ==
    /\ pc = "stop_input"
    /\ \E m \in StopMethods \cup {"Unknown"}, k \in 0 .. MaxTicks,
          ql \in StopQ, qo \in StopQ, qp \in StopQ, n \in {0, n_same_max} :
          /\ qp >= qo /\ qp >= ql
          /\ self = [NewComponent EXCEPT !.status = "updated",
                                         !.Q_outlet = qo, !.Q_peak = qp]
          /\ drv = [initialize_stop_vars([NewDriver EXCEPT !.stop_method = m], NewComponent)
                       EXCEPT !.status = "updated", !.time_index = k,
                              !.time_min = FDiv(FMul(k * SCALE, dt), 60 * SCALE),
                              !.Q_last = ql, !.n_same = n]
    /\ env  = NoFlux
    /\ hist = NewHist

\* update() of the driver: one evaluation of the stop rule
Step_stop_update ==
    /\ pc = "stop_input"
    /\ drv' = IF check_finished_raises(drv)
              THEN [drv EXCEPT !.status = "updating", !.time_index = @ + 1,
                               !.time_min = FDiv(FMul((drv.time_index + 1) * SCALE, dt),
                                                 60 * SCALE)]
              ELSE driver_update(drv, self)
    /\ pc' = IF check_finished_raises(drv) THEN "driver_raised" ELSE "stop_output"
    /\ UNCHANGED <<self, env, hist>>

SpecStop == InitStop /\ [][Step_stop_update]_vars

\* ------------------------------------------------ the flood steps alone
\* A flooding component in mid-run: routing has just left the volume vol in
\* the cells; cells 1 and 2 take every volume and width of the sets below,
\* the channel is 50 m long and holds 100 m3 per metre of width at bankfull.
FloodVols   == {0, 50 * SCALE, 100 * SCALE, 130 * SCALE, 300 * SCALE}
FloodWidths == {SCALE, 2 * SCALE}
FloodSpeeds == {0, SCALE}

FloodCase(v1, v2, w1, w2, u0) ==
    LET w  == [c \in Cells |-> IF c = 1 THEN w1 ELSE IF c = 2 THEN w2 ELSE 2 * SCALE]
        v  == [c \in Cells |-> IF c = 1 THEN v1 ELSE IF c = 2 THEN v2 ELSE 130 * SCALE]
        c0 == CHOOSE c \in Configs : c.comp_status = "Enabled" /\ c.FLOOD_OPTION
                                     /\ c.KINEMATIC_WAVE
    IN  [NewComponent EXCEPT
            !.cfg = c0, !.status = "updated",
            !.width = w, !.ds = Grid(50 * SCALE), !.S_bed = slope_in,
            !.S_free = slope_in, !.nval = nval_in,
            !.d_bankfull = SCALE,
            !.vol_bankfull = [c \in Cells |-> FMul(TrapArea(SCALE, w[c], 0), 50 * SCALE)],
            !.vol = v, !.u = Grid(u0)]

InitFlood ==
    /\ pc = "flood_input"
    /\ \E v1 \in FloodVols, v2 \in FloodVols, w1 \in FloodWidths, w2 \in FloodWidths,
          u0 \in FloodSpeeds :
          self = FloodCase(v1, v2, w1, w2, u0)
    /\ env  = NoFlux
    /\ drv  = NewDriver
    /\ hist = NewHist

\* the rest of the tick from the volume split to the geometry step
Step_flood_split ==
    /\ pc = "flood_input"
    /\ self' = update_flood_volume(update_channel_volume(self))
    /\ pc'   = "flood_depth"
    /\ UNCHANGED <<env, drv, hist>>

Step_flood_depth ==
    /\ pc = "flood_depth"
    /\ self' = update_trapezoid_Rh(update_flood_depth(update_channel_depth(self)))
    /\ pc'   = "flood_discharge"
    /\ UNCHANGED <<env, drv, hist>>

\* the discharge steps of the next tick
Step_flood_discharge ==
    /\ pc = "flood_discharge"
    /\ self' = update_discharge(update_flood_discharge(update_channel_discharge(self)))
    /\ pc'   = "flood_output"
    /\ UNCHANGED <<env, drv, hist>>

SpecFlood ==
    InitFlood /\ [][Step_flood_split \/ Step_flood_depth \/ Step_flood_discharge]_vars

\* ------------------------------------------- the source term of routing
\* A component at rest (u = 0, so Q = 0) whose update_R() has just left the
\* excess rate R; with ATTENUATE the store holds what earlier ticks left in
\* it (a store of 43200 m3 releases 0.01 m3 in one second), without it the
\* store is the zero grid of initialization.  Cells 1 and 2 take every value
\* of the sets below.
StoreSet  == {0, 43200 * SCALE, 129600 * SCALE}
SourceR   == {0 - 2 * SCALE, 0, 3 * SCALE}
SourceVol == {0, SCALE}

SourceCase(att, st1, st2, r1, r2, v1, v2) ==
    LET c0 == CHOOSE c \in Configs :
                 /\ c.comp_status = "Enabled" /\ c.ATTENUATE = att /\ ~c.FLOOD_OPTION
                 /\ c.MANNING /\ c.KINEMATIC_WAVE /\ c.OVERRIDE
        s0 == initialize(NewComponent, c0, Grid(0), 0)
        pick(a, b, z) == [c \in Cells |-> IF c = 1 THEN a ELSE IF c = 2 THEN b ELSE z]
    IN  WithVol([s0 EXCEPT !.vol_stored = pick(st1, st2, 0),
                           !.R = pick(r1, r2, SCALE)],
                pick(v1, v2, SCALE))

InitSource ==
    /\ pc = "source_input"
    /\ \E att \in BOOLEAN, st1 \in StoreSet, st2 \in StoreSet,
          r1 \in SourceR, r2 \in SourceR, v1 \in SourceVol, v2 \in SourceVol :
          /\ (~att => st1 = 0 /\ st2 = 0)
          /\ self = SourceCase(att, st1, st2, r1, r2, v1, v2)
    /\ env  = NoFlux
    /\ drv  = NewDriver
    /\ hist = NewHist

Step_source ==
    /\ pc = "source_input"
    /\ self' = update_flow_volume(self)
    /\ pc'   = "source_output"
    /\ UNCHANGED <<env, drv, hist>>

SpecSource == InitSource /\ [][Step_source]_vars

\* ------------------------------------------------------ the driver's loop
\* The run loop of the driver on its own: each tick the channels component
\* samples the outlet discharge of a hydrograph and tracks its peak, then
\* the driver's update() evaluates the stop rule; the loop ends when DONE.
\* env names the hydrograph of the run.
RunKinds == {"zero", "constant", "pulse", "dries_up"}

\* the outlet discharge of tick k
Hydro(kind, k) ==
    IF kind = "zero" THEN 0
    ELSE IF kind = "constant" THEN SCALE
    ELSE IF kind = "pulse"
         THEN (IF k = 1 THEN 2 * SCALE ELSE IF k = 2 THEN SCALE ELSE (5 * SCALE) \div 100)
    ELSE (IF k = 1 THEN 2 * SCALE ELSE 0)

\* ticks explored: enough for the steady-state rule to count past n_same_max
RunTicks == n_same_max + 3

InitRun ==
    /\ pc = "run_idle"
    /\ self = initialize(NewComponent, CHOOSE c \in Configs : c.comp_status = "Enabled",
                         Grid(0), 0)
    /\ \E kind \in RunKinds : env = [kind |-> kind]
    /\ \E m \in StopMethods :
          drv = [initialize_stop_vars([NewDriver EXCEPT !.stop_method = m], self)
                    EXCEPT !.status = "initialized"]
    /\ hist = NewHist

Step_run_tick ==
    /\ pc = "run_idle"
    /\ ~drv.DONE
    /\ drv.time_index < RunTicks
    /\ LET q  == Hydro(env.kind, drv.time_index + 1)
           s1 == update_peak_values([self EXCEPT !.Q_outlet = q, !.status = "updated"])
       IN  /\ self' = s1
           /\ drv'  = driver_update(drv, s1)
    /\ pc' = IF drv'.DONE THEN "run_done" ELSE "run_idle"
    /\ UNCHANGED <<env, hist>>

Step_run_finalize ==
    /\ pc = "run_done"
    /\ drv' = [drv EXCEPT !.status = "finalized"]
    /\ pc'  = "run_finalized"
    /\ UNCHANGED <<self, env, hist>>

\* every tick completes and the loop goes on while DONE is not set
SpecRun ==
    /\ InitRun
    /\ [][Step_run_tick \/ Step_run_finalize]_vars
    /\ WF_vars(Step_run_tick)
    /\ WF_vars(Step_run_finalize)

\* ================================================================ claims
\* C1 (as stated): for any one tick with flooding disabled, any R and any
\* stored volumes, sum(vol after) - sum(vol before) equals sum(R*da*dt)
\* minus the growth of vol_edge in that tick.
C1_MassBalanceAnyR ==
    (pc = "driver_update" /\ self.cfg.comp_status = "Enabled" /\ ~self.cfg.FLOOD_OPTION)
    => FSub(GridSum(self.vol), GridSum(hist.vol0))
         = FSub(GridSum([c \in Cells |-> FMul(FMul(self.R[c], da), dt)]),
                FSub(self.vol_edge, hist.vol_edge0))

\* C1 (amended): the single-tick mass balance holds for a tick with flooding
\* and attenuation disabled in which no cell's volume was clamped at zero.
C1_MassBalance ==
    (/\ pc = "driver_update" /\ self.cfg.comp_status = "Enabled"
     /\ ~self.cfg.FLOOD_OPTION /\ ~self.cfg.ATTENUATE /\ ~hist.clamped)
    => FSub(GridSum(self.vol), GridSum(hist.vol0))
         = FSub(GridSum([c \in Cells |-> FMul(FMul(self.R[c], da), dt)]),
                FSub(self.vol_edge, hist.vol_edge0))

\* a tick without clamping in which water was routed, some R was negative
\* and the sink cell's volume went to vol_edge
C1_Witness ==
    /\ pc = "driver_update" /\ self.cfg.comp_status = "Enabled"
    /\ ~self.cfg.FLOOD_OPTION /\ ~self.cfg.ATTENUATE /\ ~hist.clamped
    /\ \E c \in Cells : self.R[c] < 0
    /\ \E c \in Cells : self.Q[c] > 0
    /\ self.vol_edge > hist.vol_edge0

\* C2: with the stability check enabled, a tick whose depth or velocity grid
\* holds a negative, NaN or infinite value raises, so update() never goes on
\* past the guard (and no later tick runs) with such a value in d or u.
C2_GuardRaisesOnBadField ==
    (self.cfg.CHECK_STABILITY /\ pc = "write_output_files")
    => \A c \in Cells :
          /\ IsFinite(self.d[c]) /\ self.d[c] >= 0
          /\ IsFinite(self.u[c]) /\ self.u[c] >= 0

\* C3: when the guard detects a violation, the status is 'failed' and DONE is
\* set by the time the error leaves update(); otherwise the status after the
\* tick is 'updated'.
C3_GuardStateMachine ==
    /\ (pc = "raised" => self.status = "failed" /\ self.DONE)
    /\ ((pc = "driver_update" /\ self.cfg.comp_status = "Enabled")
           => self.status = "updated")

C5_EdgeZeroing ==
    [][ pc = "update_edge_values" =>
          /\ \A c \in noflow_IDs :
                /\ self'.vol[c] = 0 /\ self'.d[c] = 0
                /\ self.cfg.FLOOD_OPTION => (self'.vol_flood[c] = 0 /\ self'.d_flood[c] = 0)
          /\ self'.vol_edge = FAdd(self.vol_edge, SumOver(self.vol, noflow_IDs)) ]_vars

\* edge handling has just emptied a sink cell that held flood water
C5_Witness ==
    /\ pc = "check_stability" /\ self.cfg.FLOOD_OPTION
    /\ \E c \in noflow_IDs :
          /\ FSub(self.vol_edge, hist.vol_edge0) > self.vol_bankfull[c]
          /\ self.vol[c] = 0 /\ self.d[c] = 0 /\ self.vol_flood[c] = 0

C7_ZeroDepthZeroFriction ==
    /\ (pc \in {"update_friction_factor", "update_velocity", "update_velocity_on_edges",
                "update_froude_number", "update_outlet_values"}
           => \A c \in Cells : self.d_is_pos[c] = (self.d[c] > 0))
    /\ (pc \in {"update_velocity", "update_outlet_values"}
           => \A c \in Cells : self.d[c] = 0 => self.f[c] = 0)
    /\ (pc = "update_outlet_values"
           => \A c \in Cells : self.d[c] = 0 => self.froude[c] = 0)

\* the Froude step has run in a second tick that dried a cell that was wet
\* (so had f > 0) when the tick began
C7_Witness ==
    /\ pc = "update_outlet_values" /\ hist.ticks = 2
    /\ \E c \in Cells \ noflow_IDs : self.d[c] = 0 /\ hist.vol0[c] > 0 /\ self.f[c] = 0
    /\ \E c \in Cells : self.d[c] > 0 /\ self.f[c] > 0

\* C8: between ticks every cell with d = 0, sink cells included, has
\* f = 0, tau = 0, u_star = 0 and froude = 0.
C8_ZeroDepthZeroAll ==
    (pc \in {"driver_update", "idle"} /\ self.cfg.comp_status = "Enabled")
    => \A c \in Cells :
          self.d[c] = 0 =>
             self.f[c] = 0 /\ self.tau[c] = 0 /\ self.u_star[c] = 0 /\ self.froude[c] = 0

\* C9: with flooding, right after the volume split vol_chan = min(vol,
\* vol_bankfull) and vol_flood = max(vol - vol_bankfull, 0) in every cell,
\* and vol_bankfull never changes after initialization.
C9_FloodPartition ==
    [][ /\ (pc = "update_flood_volume" =>
               \A c \in Cells :
                  /\ self'.vol_chan[c] = FMin(self'.vol[c], self'.vol_bankfull[c])
                  /\ self'.vol_flood[c] = FMax(FSub(self'.vol[c], self'.vol_bankfull[c]), 0))
        /\ (pc # "constructed" => self'.vol_bankfull = self.vol_bankfull) ]_vars

\* the split has just run in a second tick with one cell over bankfull and
\* another wet cell below it
C9_Witness ==
    /\ pc = "update_channel_depth" /\ self.cfg.FLOOD_OPTION /\ hist.ticks = 2
    /\ \E c \in Cells : self.vol_flood[c] > 0 /\ self.vol_chan[c] = self.vol_bankfull[c]
    /\ \E c \in Cells : self.vol[c] > 0 /\ self.vol[c] < self.vol_bankfull[c]

\* C10: with flooding, between ticks (from initialization on) every cell,
\* sink cells included, has vol = vol_chan + vol_flood.
C10_VolumeDecomposition ==
    (/\ pc \in {"driver_initialize", "idle", "driver_update"}
     /\ self.cfg.comp_status = "Enabled" /\ self.cfg.FLOOD_OPTION)
    => \A c \in Cells : self.vol[c] = FAdd(self.vol_chan[c], self.vol_flood[c])

\* C11: after every tick of an enabled component Q_outlet, u_outlet,
\* d_outlet and f_outlet read Q, u, d and f of the outlet cell, the
\* attributes are still bound to the 0-d arrays made at initialization, and
\* the driver, reading through the references it took at its own
\* initialization, sees those same values.
C11_OutletSampling ==
    (pc = "driver_update" /\ self.cfg.comp_status = "Enabled")
    => /\ self.Q_outlet = self.Q[outlet_ID]
       /\ self.u_outlet = self.u[outlet_ID]
       /\ self.d_outlet = self.d[outlet_ID]
       /\ self.f_outlet = self.f[outlet_ID]
       /\ self.ref = drv.outlet_ref
       /\ self.obj[drv.outlet_ref.Q_outlet] = self.Q[outlet_ID]
       /\ self.obj[drv.outlet_ref.u_outlet] = self.u[outlet_ID]
       /\ self.obj[drv.outlet_ref.d_outlet] = self.d[outlet_ID]
       /\ self.obj[drv.outlet_ref.f_outlet] = self.f[outlet_ID]

\* a second tick has ended with flow at the outlet that differs from the
\* flow sampled in the first tick
C11_Witness ==
    /\ pc = "driver_update" /\ self.cfg.comp_status = "Enabled" /\ hist.ticks = 2
    /\ self.Q[outlet_ID] > 0 /\ self.u[outlet_ID] > 0
    /\ self.d[outlet_ID] > 0 /\ self.f[outlet_ID] > 0
    /\ drv.Q_last # self.Q[outlet_ID]
    /\ self.obj[drv.outlet_ref.Q_outlet] = self.Q[outlet_ID]

\* C12: Q_peak, u_peak and d_peak never decrease; after each tick each of
\* them is the maximum of 0 and all outlet values sampled so far, and
\* T_peak, Tu_peak, Td_peak hold the model time of the first tick whose
\* sample reached that maximum (0 while no sample has exceeded 0).
C12_PeakTracking ==
    [][ /\ (pc # "constructed" =>
               /\ self'.Q_peak >= self.Q_peak
               /\ self'.u_peak >= self.u_peak
               /\ self'.d_peak >= self.d_peak)
        /\ (pc = "update_peak_values" =>
               LET smp   == hist'.samples
                   N     == 1 .. Len(smp)
                   Qs    == {0} \cup {smp[i].Q : i \in N}
                   us    == {0} \cup {smp[i].u : i \in N}
                   ds    == {0} \cup {smp[i].d : i \in N}
                   Qmax  == CHOOSE x \in Qs : \A y \in Qs : y <= x
                   umax  == CHOOSE x \in us : \A y \in us : y <= x
                   dmax  == CHOOSE x \in ds : \A y \in ds : y <= x
                   iQ    == {i \in N : smp[i].Q = Qmax}
                   iu    == {i \in N : smp[i].u = umax}
                   id    == {i \in N : smp[i].d = dmax}
                   First(S) == CHOOSE i \in S : \A j \in S : i <= j
               IN  /\ self'.Q_peak = Qmax
                   /\ self'.u_peak = umax
                   /\ self'.d_peak = dmax
                   /\ self'.T_peak  = IF Qmax > 0 THEN smp[First(iQ)].t ELSE 0
                   /\ self'.Tu_peak = IF umax > 0 THEN smp[First(iu)].t ELSE 0
                   /\ self'.Td_peak = IF dmax > 0 THEN smp[First(id)].t ELSE 0) ]_vars

\* after the second tick the depth peak of the first tick is retained (the
\* outlet depth has fallen) while the discharge peak was set in the second
C12_Witness ==
    /\ pc = "update_Q_out_integral" /\ hist.ticks = 2
    /\ self.d_peak > self.d_outlet /\ self.d_outlet > 0 /\ self.Td_peak = 0
    /\ self.Q_peak > 0 /\ self.T_peak > 0

\* C13 (as stated): after initialization no step lowers vol_R, vol_Q or
\* vol_edge.
C13_AccumulatorsMonotone ==
    [][ pc # "constructed" =>
           /\ self'.vol_R >= self.vol_R
           /\ self'.vol_Q >= self.vol_Q
           /\ self'.vol_edge >= self.vol_edge ]_vars

\* C13 (amended): after initialization no step lowers vol_Q or vol_edge;
\* vol_R is changed only by the R-integral step, which adds the sum over
\* cells of R * da * dt of that tick (so vol_R does not decrease in a tick
\* whose net R is not negative).
C13_AccumulatorsSigned ==
    [][ pc # "constructed" =>
           /\ self'.vol_Q >= self.vol_Q
           /\ self'.vol_edge >= self.vol_edge
           /\ (pc # "update_R_integral" => self'.vol_R = self.vol_R)
           /\ (pc = "update_R_integral" =>
                  LET net == GridSum([c \in Cells |-> FMul(FMul(self.R[c], da), dt)])
                  IN  /\ self'.vol_R = FAdd(self.vol_R, net)
                      /\ (net >= 0 => self'.vol_R >= self.vol_R)) ]_vars

\* two ticks of net loss and gain have left vol_R negative while water has
\* reached the sink in both ticks and has left through the outlet
C13_Witness ==
    /\ pc = "driver_update" /\ hist.ticks = 2
    /\ self.vol_R < 0
    /\ hist.vol_edge0 > 0 /\ self.vol_edge > hist.vol_edge0
    /\ self.vol_Q > 0

\* C14: after initialization of an enabled component, whatever the routing
\* scheme, every cell's bed slope is finite and strictly positive: a slope
\* that was zero, negative, NaN or infinite in the file is now the minimum
\* of the valid slopes of the grid, a valid slope is unchanged.
C14_SlopeCleanup ==
    [][ (pc = "slope_input" /\ pc' = "slope_output" /\ self.cfg.comp_status = "Enabled")
        => LET good == {c \in Cells : ~IsBadSlope(self.S_bed[c])}
           IN  \A c \in Cells :
                  /\ ~IsNaN(self'.S_bed[c]) /\ ~IsInf(self'.S_bed[c]) /\ self'.S_bed[c] > 0
                  /\ (c \in good => self'.S_bed[c] = self.S_bed[c])
                  /\ (c \notin good /\ good # {} =>
                         \A g \in good : self'.S_bed[c] <= self.S_bed[g]) ]_vars

\* C14 (amended): with the kinematic wave scheme and at least one valid
\* slope in the grid, initialization leaves finite, strictly positive bed
\* slopes, each bad one replaced by the minimum valid slope and each valid
\* one unchanged; with no valid slope it ends in an error; with the other
\* schemes the bed slopes stay as read.
C14_SlopeCleanupKinematic ==
    [][ (pc = "slope_input" /\ self.cfg.comp_status = "Enabled")
        => LET good == {c \in Cells : ~IsBadSlope(self.S_bed[c])}
           IN  IF ~self.cfg.KINEMATIC_WAVE
               THEN pc' = "slope_output" /\ self'.S_bed = self.S_bed
               ELSE IF good = {}
               THEN pc' = "raised"
               ELSE /\ pc' = "slope_output"
                    /\ \A c \in Cells :
                          /\ ~IsNaN(self'.S_bed[c]) /\ ~IsInf(self'.S_bed[c])
                          /\ self'.S_bed[c] > 0
                          /\ (c \in good => self'.S_bed[c] = self.S_bed[c])
                          /\ (c \notin good =>
                                 /\ \E g \in good : self'.S_bed[c] = self.S_bed[g]
                                 /\ \A g \in good : self'.S_bed[c] <= self.S_bed[g]) ]_vars

\* a kinematic wave component initialized from a grid with a NaN, an
\* infinite and a larger valid slope: S_free keeps the slopes as read
C14_Witness ==
    /\ pc = "slope_output" /\ self.cfg.comp_status = "Enabled" /\ self.cfg.KINEMATIC_WAVE
    /\ \E c1, c2, c3, c4 \in Cells :
          /\ IsNaN(self.S_free[c1]) /\ self.S_bed[c1] = (2 * SCALE) \div 100
          /\ IsInf(self.S_free[c2]) /\ self.S_bed[c2] = (2 * SCALE) \div 100
          /\ self.S_free[c3] = (4 * SCALE) \div 100 /\ self.S_bed[c3] = (4 * SCALE) \div 100
          /\ self.S_free[c4] = (2 * SCALE) \div 100 /\ self.S_bed[c4] = (2 * SCALE) \div 100

\* C15: every configuration has exactly one of MANNING and LAW_OF_WALL set,
\* and after the friction step f of every cell is the value of the closure
\* of that family (Manning's with nval, the log law with z0val).
C15_OneFrictionFamily ==
    pc = "friction_output" =>
       /\ (self.cfg.MANNING # self.cfg.LAW_OF_WALL)
       /\ self.f = IF self.cfg.MANNING THEN ManningF(self) ELSE LawOfWallF(self)

\* C16: one update of the driver advances its clock by one step and evaluates
\* the stop rule once: under 'Until_n_steps' the run is DONE exactly when
\* time_index >= n_steps, under 'Until_model_time' exactly when time_min >=
\* T_stop, under 'Q_peak_fraction' it is DONE when Q_last > Q_outlet and
\* 0 < Q_outlet <= Qp_fraction * Q_peak (and otherwise only on a steady
\* outlet discharge); any other stop method raises an error; every
\* evaluation that does not raise ends with Q_last = Q_outlet.
C16_StopRule ==
    [][ pc = "stop_input" =>
          LET m    == drv.stop_method
              cond == /\ FGt(drv.Q_last, self.Q_outlet)
                      /\ FGt(self.Q_outlet, 0)
                      /\ FLe(self.Q_outlet, FMul(Qp_fraction, self.Q_peak))
          IN  /\ drv'.time_index = drv.time_index + 1
              /\ IF m \notin {"Q_peak_fraction", "Until_model_time", "Until_n_steps"}
                 THEN pc' = "driver_raised"
                 ELSE /\ pc' = "stop_output"
                      /\ drv'.Q_last = self.Q_outlet
                      /\ (m = "Until_n_steps" =>
                             (drv'.DONE <=> drv'.time_index >= n_steps))
                      /\ (m = "Until_model_time" =>
                             (drv'.DONE <=> FGe(drv'.time_min, drv.T_stop)))
                      /\ (m = "Q_peak_fraction" =>
                             /\ (cond => drv'.DONE)
                             /\ (drv'.DONE /\ drv'.n_same <= n_same_max => cond)) ]_vars

\* the driver has stopped a 'Q_peak_fraction' run on a falling limb: the
\* outlet discharge changed in this step and lies in (0, Qp_fraction * Q_peak]
C16_Witness ==
    /\ pc = "stop_output" /\ drv.stop_method = "Q_peak_fraction"
    /\ drv.DONE /\ drv.n_same = 0 /\ drv.time_index = 2
    /\ self.Q_outlet > 0 /\ drv.Q_last = self.Q_outlet
    /\ self.Q_outlet = FMul(Qp_fraction, self.Q_peak)

\* C17 (as stated): in every configuration the routing step leaves, in every
\* cell c, vol[c] = max(0, vol_old[c] + R[c]*da*dt + dt * (sum of Q over
\* all children of c) - dt * Q[c]).
C17_RoutingAnyConfig ==
    [][ pc = "update_flow_volume" =>
          \A c \in Cells :
             LET children == {k \in Cells \ noflow_IDs : parent_IDs[k] = c}
                 inflow   == SumOver([k \in Cells |-> FMul(dt, self.Q[k])], children)
             IN  self'.vol[c] =
                    FMax(0, FSub(FAdd(FAdd(self.vol[c], FMul(FMul(self.R[c], da), dt)),
                                      inflow),
                                 FMul(dt, self.Q[c]))) ]_vars

\* C17 (amended): with ATTENUATE off the routing step leaves vol[c] =
\* max(0, vol_old[c] + R[c]*da*dt + dt * (sum of Q over all children of c)
\* - dt * Q[c]); with ATTENUATE on, R[c]*da*dt goes into vol_stored[c] and
\* the source term is the amount min(vol_stored[c] / t_drain * dt,
\* vol_stored[c]) released from that store.
C17_Routing ==
    [][ pc = "update_flow_volume" =>
          \A c \in Cells :
             LET children == {k \in Cells \ noflow_IDs : parent_IDs[k] = c}
                 inflow   == SumOver([k \in Cells |-> FMul(dt, self.Q[k])], children)
                 Rvol     == FMul(FMul(self.R[c], da), dt)
                 store    == FAdd(self.vol_stored[c], Rvol)
                 source   == IF self.cfg.ATTENUATE
                             THEN FMin(FMul(FDiv(store, t_drain), dt), store)
                             ELSE Rvol
             IN  self'.vol[c] =
                    FMax(0, FSub(FAdd(FAdd(self.vol[c], source), inflow),
                                 FMul(dt, self.Q[c]))) ]_vars

\* the routing step of a second tick, without attenuation, has moved water
\* from both children of cell 3 into it while cell 3 itself discharged
C17_Witness ==
    /\ pc \in {"update_channel_volume", "update_channel_depth"}
    /\ hist.ticks = 2 /\ ~self.cfg.ATTENUATE
    /\ self.Q[1] > 0 /\ self.Q[2] > 0 /\ self.Q[3] > 0
    /\ parent_IDs[1] = 3 /\ parent_IDs[2] = 3
    /\ self.vol[3] > hist.vol0[3]

\* C18: when the routing step is about to run, u, A_wet and d_flood are
\* still the grids of the end of the previous tick (the initial ones in the
\* first tick) and the discharge it will use is u * A_wet of those grids,
\* plus, with flooding, the flood discharge of that d_flood.
C18_LaggedDischarge ==
    (pc = "update_flow_volume" /\ self.cfg.comp_status = "Enabled")
    => LET Qc0 == [c \in Cells |-> FMul(hist.u0[c], hist.A_wet0[c])]
           Sf  == IF self.cfg.KINEMATIC_WAVE THEN self.S_bed ELSE hist.S_free0
           Qf0 == [c \in Cells |->
                     FMul(FDiv(FMul(FPow23(hist.d_flood0[c]), FSqrt(FAbs(Sf[c]))),
                               flood_manning_n),
                          FMul(FMul(width_ratio, self.width[c]), hist.d_flood0[c]))]
       IN  /\ self.u = hist.u0
           /\ self.A_wet = hist.A_wet0
           /\ self.d_flood = hist.d_flood0
           /\ self.Q = IF self.cfg.FLOOD_OPTION
                       THEN [c \in Cells |-> FAdd(Qc0[c], Qf0[c])]
                       ELSE Qc0

\* the routing step of a second tick is about to run on a discharge made of
\* channel flow and flood flow left by the first tick
C18_Witness ==
    /\ pc = "update_flow_volume" /\ hist.ticks = 2 /\ self.cfg.FLOOD_OPTION
    /\ \E c \in Cells :
          /\ hist.u0[c] > 0 /\ hist.A_wet0[c] > 0 /\ hist.d_flood0[c] > 0
          /\ self.Qc[c] > 0 /\ self.Q[c] > self.Qc[c]

\* C19 (as stated): when update() of an enabled component reaches its last
\* statement it has called, once each and in this order: source flux,
\* discharge, [flood discharge], diversions, volume routing, [volume split],
\* depth inversion, [flood depth], geometry, [free-surface slope], shear
\* stress and speed, friction, velocity, edge-velocity zeroing, Froude,
\* outlet, peak and edge tracking, stability check, output write, clock
\* advance; the bracketed ones with flooding (the slope one without the
\* kinematic wave scheme) only.
C19_UpdateOrderFixed ==
    (pc = "set_status" /\ self.cfg.comp_status = "Enabled")
    => LET Opt(b, seq) == IF b THEN seq ELSE << >>
           flood == self.cfg.FLOOD_OPTION
       IN  hist.trace =
              <<"update_R", "update_R_integral", "update_channel_discharge">>
              \o Opt(flood, <<"update_flood_discharge", "update_discharge">>)
              \o <<"update_diversions", "update_flow_volume">>
              \o Opt(flood, <<"update_channel_volume", "update_flood_volume">>)
              \o <<"update_channel_depth">>
              \o Opt(flood, <<"update_flood_depth">>)
              \o <<"update_trapezoid_Rh">>
              \o Opt(~self.cfg.KINEMATIC_WAVE, <<"update_free_surface_slope">>)
              \o <<"update_shear_stress", "update_shear_speed",
                   "update_friction_factor", "update_velocity",
                   "update_velocity_on_edges", "update_froude_number",
                   "update_outlet_values", "update_peak_values",
                   "update_Q_out_integral", "update_edge_values",
                   "check_flow_depth", "check_flow_velocity",
                   "write_output_files", "update_time">>

\* C19 (amended): the same order, in which the geometry step is called
\* unless the scheme is the dynamic wave and the stability check only when
\* CHECK_STABILITY is set.
C19_UpdateOrder ==
    (pc = "set_status" /\ self.cfg.comp_status = "Enabled")
    => LET Opt(b, seq) == IF b THEN seq ELSE << >>
           flood == self.cfg.FLOOD_OPTION
       IN  hist.trace =
              <<"update_R", "update_R_integral", "update_channel_discharge">>
              \o Opt(flood, <<"update_flood_discharge", "update_discharge">>)
              \o <<"update_diversions", "update_flow_volume">>
              \o Opt(flood, <<"update_channel_volume", "update_flood_volume">>)
              \o <<"update_channel_depth">>
              \o Opt(flood, <<"update_flood_depth">>)
              \o Opt(~self.cfg.DYNAMIC_WAVE, <<"update_trapezoid_Rh">>)
              \o Opt(~self.cfg.KINEMATIC_WAVE, <<"update_free_surface_slope">>)
              \o <<"update_shear_stress", "update_shear_speed",
                   "update_friction_factor", "update_velocity",
                   "update_velocity_on_edges", "update_froude_number",
                   "update_outlet_values", "update_peak_values",
                   "update_Q_out_integral", "update_edge_values">>
              \o Opt(self.cfg.CHECK_STABILITY, <<"check_flow_depth", "check_flow_velocity">>)
              \o <<"write_output_files", "update_time">>

\* a second update() of the dynamic wave component has reached its last
\* statement with water in the channels: no geometry step, a free-surface
\* slope step and both stability checks were called
C19_Witness ==
    /\ pc = "set_status" /\ hist.ticks = 2
    /\ self.cfg.DYNAMIC_WAVE /\ self.cfg.CHECK_STABILITY
    /\ \E c \in Cells : self.d[c] > 0
    /\ \A i \in 1 .. Len(hist.trace) : hist.trace[i] # "update_trapezoid_Rh"
    /\ \E i \in 1 .. Len(hist.trace) : hist.trace[i] = "update_free_surface_slope"
    /\ \E i \in 1 .. Len(hist.trace) : hist.trace[i] = "check_flow_velocity"

\* C20: the source step sets, in every cell, R = (P_rain + SM + GW + MR) -
\* (ET' + IN), where ET' is 0 in the cells whose vol is less than ET * dt
\* and ET elsewhere, for a scalar ET as for a grid ET.
C20_ExcessRate ==
    [][ pc = "update_R" =>
          \A c \in Cells :
             LET ETp == IF FLt(self.vol[c], FMul(env.ET[c], dt)) THEN 0 ELSE env.ET[c]
             IN  self'.R[c] =
                    FSub(FAdd(FAdd(FAdd(env.P_rain[c], env.SM[c]), env.GW[c]), env.MR[c]),
                         FAdd(ETp, env.Infil[c])) ]_vars

\* C21 (as stated): update_channel_depth leaves d = max(vol_chan / (width *
\* ds), 0) in the cells with angle = 0 and, in the cells with angle > 0,
\* d = max((sqrt(arg) - width) / (2*tan(angle)), 0) with
\* arg = 2*vol_chan*tan(angle)/ds + width^2.
C21_DepthFormulaStated ==
    [][ pc = "depth_input" =>
          \A c \in Cells :
             LET v    == self.vol_chan[c]
                 w    == self.width[c]
                 tn   == Tan(self.angle[c])
                 arg  == FAdd(FDiv(FMul(FMul(2 * SCALE, v), tn), self.ds[c]), FMul(w, w))
                 root == FDiv(FSub(FSqrt(arg), w), FMul(2 * SCALE, tn))
             IN  self'.d[c] = IF self.angle[c] = 0
                              THEN FMax(FDiv(v, FMul(w, self.ds[c])), 0)
                              ELSE FMax(root, 0) ]_vars

\* C21 (amended): the same with arg = 4*vol_chan*tan(angle)/ds + width^2,
\* the discriminant of tan(angle)*d^2 + width*d - vol_chan/ds = 0.
C21_DepthFormula ==
    [][ pc = "depth_input" =>
          \A c \in Cells :
             LET v    == self.vol_chan[c]
                 w    == self.width[c]
                 tn   == Tan(self.angle[c])
                 arg  == FAdd(FDiv(FMul(FMul(4 * SCALE, tn), v), self.ds[c]), FMul(w, w))
                 root == FDiv(FSub(FSqrt(arg), w), FMul(2 * SCALE, tn))
             IN  self'.d[c] = IF self.angle[c] = 0
                              THEN FMax(FDiv(v, FMul(w, self.ds[c])), 0)
                              ELSE FMax(root, 0) ]_vars

\* the depth step has run on a grid angle with water under a flared bank in
\* one cell and under a vertical bank in another, both of positive width
C21_Witness ==
    /\ pc = "depth_output" /\ ~self.cfg.SCALAR_ANGLES
    /\ \E c \in Cells :
          /\ self.angle[c] = 1 /\ self.width[c] = SCALE /\ self.vol_chan[c] > 0
          /\ self.d[c] = 2 * SCALE
    /\ \E c \in Cells :
          /\ self.angle[c] = 0 /\ self.width[c] = SCALE /\ self.vol_chan[c] > 0
          /\ self.d[c] = SCALE

\* C22: with flooding, the flood-depth step leaves in every cell d_flood =
\* max(0, vol_flood / (width_ratio * width * ds)) with width_ratio = 5 (a
\* flood volume of 30 over width 2 and length 50 gives 0.06), and the
\* discharge steps that follow leave Qf = uf * (width_ratio * width *
\* d_flood), uf being Manning's velocity of the flood water, and Q = Qc + Qf.
C22_FloodDepth ==
    /\ width_ratio = 5 * SCALE
    /\ (pc \in {"flood_discharge", "flood_output"} =>
          \A c \in Cells :
             /\ self.d_flood[c] =
                   FMax(0, FDiv(self.vol_flood[c],
                                FMul(FMul(5 * SCALE, self.width[c]), self.ds[c])))
             /\ (/\ self.vol_flood[c] = 30 * SCALE /\ self.width[c] = 2 * SCALE
                 /\ self.ds[c] = 50 * SCALE)
                   => self.d_flood[c] = (6 * SCALE) \div 100)
    /\ (pc = "flood_output" =>
          \A c \in Cells :
             LET uf == FDiv(FMul(FPow23(self.d_flood[c]), FSqrt(FAbs(self.S_bed[c]))),
                            flood_manning_n)
             IN  /\ self.Qf[c] =
                       FMul(uf, FMul(FMul(5 * SCALE, self.width[c]), self.d_flood[c]))
                 /\ self.Qc[c] = FMul(self.u[c], self.A_wet[c])
                 /\ self.Q[c] = FAdd(self.Qc[c], self.Qf[c]))

\* the scenario of the specification: a bankfull volume of 100, a cell volume
\* of 130, width 2 and length 50 have given a flood depth of 0.06 and a
\* discharge made of channel and flood flow, next to a cell that is not
\* flooded
C22_Witness ==
    /\ pc = "flood_output"
    /\ \E c \in Cells :
          /\ self.vol_bankfull[c] = 100 * SCALE /\ self.vol[c] = 130 * SCALE
          /\ self.vol_chan[c] = 100 * SCALE /\ self.vol_flood[c] = 30 * SCALE
          /\ self.d_flood[c] = (6 * SCALE) \div 100
          /\ self.Qf[c] > 0 /\ self.Qc[c] > 0 /\ self.Q[c] > self.Qc[c]
    /\ \E c \in Cells : self.vol[c] > 0 /\ self.vol_flood[c] = 0 /\ self.d_flood[c] = 0

\* C23 (as stated): the geometry step leaves P_wet = 1, Rh = 0 and
\* A_wet = 0 at every sink cell whatever its depth, and at every other cell
\* A_wet = d*(width + d*tan(angle)), P_wet = width + 2*d/cos(angle) and
\* Rh = A_wet / P_wet.
C23_SinkGeometryStated ==
    [][ pc = "update_trapezoid_Rh" =>
          \A c \in Cells :
             IF c \in noflow_IDs
             THEN self'.P_wet[c] = SCALE /\ self'.Rh[c] = 0 /\ self'.A_wet[c] = 0
             ELSE /\ self'.A_wet[c] =
                        FMul(self.d[c], FAdd(self.width[c], FMul(self.d[c], Tan(self.angle[c]))))
                  /\ self'.P_wet[c] =
                        FAdd(self.width[c], FDiv(FMul(2 * SCALE, self.d[c]), Cos(self.angle[c])))
                  /\ self'.Rh[c] = FDiv(self'.A_wet[c], self'.P_wet[c]) ]_vars

\* C23 (amended): the geometry step leaves P_wet = 1 and Rh = 0 at every
\* sink cell whatever its depth; A_wet = d*(width + d*tan(angle)) in every
\* cell, sink cells included; at every other cell P_wet = width +
\* 2*d/cos(angle) and Rh = A_wet / P_wet.
C23_SinkGeometry ==
    [][ pc = "update_trapezoid_Rh" =>
          \A c \in Cells :
             /\ self'.A_wet[c] =
                   FMul(self.d[c], FAdd(self.width[c], FMul(self.d[c], Tan(self.angle[c]))))
             /\ IF c \in noflow_IDs
                THEN self'.P_wet[c] = SCALE /\ self'.Rh[c] = 0
                ELSE /\ self'.P_wet[c] =
                           FAdd(self.width[c],
                                FDiv(FMul(2 * SCALE, self.d[c]), Cos(self.angle[c])))
                     /\ self'.Rh[c] = FDiv(self'.A_wet[c], self'.P_wet[c]) ]_vars

\* the geometry step has just run with water standing in the sink cell and
\* in a cell with a flared bank
C23_Witness ==
    /\ pc \in {"update_free_surface_slope", "update_shear_stress"}
    /\ ~self.cfg.DYNAMIC_WAVE
    /\ hist.trace[Len(hist.trace)] = "update_trapezoid_Rh"
    /\ \E c \in noflow_IDs :
          self.d[c] > 0 /\ self.A_wet[c] > 0 /\ self.P_wet[c] = SCALE /\ self.Rh[c] = 0
    /\ \E c \in Cells \ noflow_IDs :
          self.angle[c] = 1 /\ self.d[c] > 0 /\ self.Rh[c] > 0 /\ self.P_wet[c] > SCALE

C25_CumulativeBalanceStated ==
    (/\ pc \in {"idle", "driver_update", "finalize"}
     /\ self.cfg.comp_status = "Enabled"
     /\ ~self.cfg.FLOOD_OPTION /\ ~self.cfg.ATTENUATE)
    => FAdd(GridSum(self.vol), self.vol_edge) = FAdd(self.vol_chan_sum0, self.vol_R)

\* C25 (amended): the same balance holds as long as in no tick so far the
\* routing step had to raise a cell's volume to zero.
C25_CumulativeBalance ==
    (/\ pc \in {"idle", "driver_update", "finalize"}
     /\ self.cfg.comp_status = "Enabled"
     /\ ~self.cfg.FLOOD_OPTION /\ ~self.cfg.ATTENUATE
     /\ ~hist.clamped_ever)
    => FAdd(GridSum(self.vol), self.vol_edge) = FAdd(self.vol_chan_sum0, self.vol_R)

\* two ticks without clamping have ended: the run began with water in the
\* channels, some cell lost water to a negative R in the last tick, water
\* was routed to the sink in both ticks and the outlet is discharging
C25_Witness ==
    /\ pc = "driver_update" /\ hist.ticks = 2 /\ self.cfg.comp_status = "Enabled"
    /\ ~self.cfg.FLOOD_OPTION /\ ~self.cfg.ATTENUATE /\ ~hist.clamped_ever
    /\ self.vol_chan_sum0 > 0
    /\ \E c \in Cells : self.R[c] < 0
    /\ hist.vol_edge0 > 0 /\ self.vol_edge > hist.vol_edge0
    /\ self.Q[outlet_ID] > 0

\* C26: with ATTENUATE on, the routing step adds R*da*dt to vol_stored,
\* then moves vol_sides = min(vol_stored*dt/t_drain, vol_stored), with
\* t_drain = 50 days, from vol_stored into vol: what leaves the store is what
\* enters vol, and vol_stored ends >= 0.  With ATTENUATE off, R*da*dt is
\* added to vol and vol_stored does not change.  (No discharge: Q = 0.)
C26_LinearReservoir ==
    [][ pc = "source_input" =>
          /\ t_drain = 50 * 24 * 3600 * SCALE
          /\ \A c \in Cells :
                LET Rvol  == FMul(FMul(self.R[c], da), dt)
                    store == FAdd(self.vol_stored[c], Rvol)
                    sides == FMin(FDiv(FMul(store, dt), t_drain), store)
                IN  IF self.cfg.ATTENUATE
                    THEN /\ self'.vol[c] = FMax(0, FAdd(self.vol[c], sides))
                         /\ self'.vol_stored[c] = FSub(store, sides)
                         /\ self'.vol_stored[c] >= 0
                    ELSE /\ self'.vol[c] = FMax(0, FAdd(self.vol[c], Rvol))
                         /\ self'.vol_stored[c] = self.vol_stored[c] ]_vars

\* the step has run with ATTENUATE: one cell's store took in the excess and
\* released 0.01 m3 into the channel, another cell's store was driven below
\* zero by a negative R and passed the whole deficit on to vol
C26_Witness ==
    /\ pc = "source_output" /\ self.cfg.ATTENUATE
    /\ \E c \in Cells :
          /\ self.R[c] = 3 * SCALE /\ self.vol[c] = SCALE \div 100
          /\ self.vol_stored[c] = 43203 * SCALE - SCALE \div 100
    /\ \E c \in Cells :
          /\ self.R[c] < 0 /\ self.vol_stored[c] = 0 /\ self.vol[c] = 0

\* C27: when every cell has the same bank angle, update_channel_depth gives
\* the same depth grid (and the same mask of wet cells) by the scalar-angle
\* path as by the grid-angle path, and for angle = 0 both give
\* max(vol_chan / (width * ds), 0).
C27_ScalarGridAgree ==
    [][ (pc = "depth_input" /\ \A c \in Cells : self.angle[c] = self.angle[1]) =>
          LET other == update_channel_depth(
                          [self EXCEPT !.cfg.SCALAR_ANGLES = ~self.cfg.SCALAR_ANGLES])
          IN  /\ self'.d = other.d
              /\ self'.d_is_pos = other.d_is_pos
              /\ (self.angle[1] = 0 =>
                    \A c \in Cells :
                       /\ self'.d[c] =
                             FMax(FDiv(self.vol_chan[c], FMul(self.width[c], self.ds[c])), 0)
                       /\ other.d[c] = self'.d[c]) ]_vars

\* the scalar-angle path has run with flared banks everywhere and has given
\* different positive depths in two cells
C27_Witness ==
    /\ pc = "depth_output" /\ self.cfg.SCALAR_ANGLES
    /\ \A c \in Cells : self.angle[c] = 1
    /\ self.d[1] = 2 * SCALE /\ self.d[2] = SCALE /\ self.width[1] = 0
    /\ update_channel_depth([self EXCEPT !.cfg.SCALAR_ANGLES = FALSE]).d = self.d

\* C28: the values assigned to the status of the channels component are, in
\* order, 'initializing', 'initialized', then 'updated' once per completed
\* tick, then 'finalizing', 'finalized', and the status is always the last
\* value assigned; a component disabled in its configuration leaves
\* initialize() with DONE set and status 'initialized', and no later step
\* (update, finalize) changes anything of it.
C28_Lifecycle ==
    [][ LET log  == hist'.status_log
            n    == Len(log)
            Next2 == { <<"initializing", "initialized">>, <<"initialized", "updated">>,
                       <<"updated", "updated">>, <<"updated", "finalizing">>,
                       <<"finalizing", "finalized">> }
        IN  /\ n > 0 /\ log[1] = "initializing"
            /\ \A i \in 1 .. n - 1 : <<log[i], log[i + 1]>> \in Next2
            /\ self'.status = log[n]
            /\ (pc' \in {"driver_update", "idle", "finalize"} /\ self'.cfg.comp_status = "Enabled"
                  => Cardinality({i \in 1 .. n : log[i] = "updated"}) = hist'.ticks)
            /\ (pc = "constructed" /\ self'.cfg.comp_status = "Disabled"
                  => self'.DONE /\ self'.status = "initialized")
            /\ (pc # "constructed" /\ self.cfg.comp_status = "Disabled"
                  => self' = self /\ self.DONE /\ self.status = "initialized") ]_vars

\* an enabled component has been finalized after two ticks
C28_Witness ==
    /\ pc = "finalized" /\ self.cfg.comp_status = "Enabled" /\ hist.ticks = 2
    /\ self.status = "finalized" /\ ~self.DONE
    /\ hist.status_log = <<"initializing", "initialized", "updated", "updated",
                           "finalizing", "finalized">>

\* a disabled component has gone through two update() calls and finalize()
C28_WitnessDisabled ==
    /\ pc = "finalized" /\ self.cfg.comp_status = "Disabled" /\ hist.ticks = 2
    /\ self.status = "initialized" /\ self.DONE /\ self.time_index = 0

\* C29 (as stated, its steady-state clause): under 'Q_peak_fraction' a
\* hydrograph that stays constant, a constantly zero one included, is
\* stopped once more than n_same_max consecutive ticks have left Q_outlet
\* unchanged, so that DONE becomes true after finitely many ticks.
C29_TerminationStated ==
    (/\ drv.stop_method = "Q_peak_fraction"
     /\ env.kind \in {"zero", "constant"}
     /\ drv.n_same > n_same_max)
    => drv.DONE

\* C29 (amended): under 'Until_model_time' and 'Until_n_steps' DONE becomes
\* true after finitely many ticks for every hydrograph; under
\* 'Q_peak_fraction' it does for a hydrograph that falls into (0,
\* Qp_fraction * Q_peak] and for one that stays constant above nonzero_tol,
\* which the steady-state rule stops at the first tick with n_same >
\* n_same_max = 499; a hydrograph that is zero from some tick on is not
\* stopped by either rule, however long Q_outlet has been the same.
C29_Termination ==
    /\ (drv.stop_method # "Q_peak_fraction" \/ env.kind \in {"constant", "pulse"})
          ~> drv.DONE
    /\ [](drv.stop_method = "Q_peak_fraction" =>
            /\ (env.kind = "constant" =>
                  /\ (drv.DONE <=> drv.n_same > n_same_max)
                  /\ drv.n_same <= n_same_max + 1)
            /\ (env.kind \in {"zero", "dries_up"} => ~drv.DONE))
    /\ n_same_max = 499

\* the steady-state rule has stopped a run on a constant hydrograph: 501
\* ticks, the last 500 without change of Q_outlet
C29_Witness ==
    /\ pc = "run_done" /\ drv.stop_method = "Q_peak_fraction" /\ env.kind = "constant"
    /\ drv.DONE /\ drv.n_same = n_same_max + 1 /\ drv.time_index = n_same_max + 2
    /\ self.Q_outlet = self.Q_peak /\ self.Q_outlet > 0

\* a run on a constantly zero hydrograph is still going after 502 ticks
C29_WitnessZero ==
    /\ pc = "run_idle" /\ drv.stop_method = "Q_peak_fraction" /\ env.kind = "zero"
    /\ ~drv.DONE /\ drv.n_same = RunTicks /\ drv.time_index = RunTicks

\* C30: no step of update() changes the fluxes supplied by the other
\* components (P_rain, SM, GW, ET, IN, MR): from the entry of update() to
\* its end they are the grids the suppliers left, the ET grid included.
C30_InputsReadOnly ==
    [][ pc \notin {"constructed", "idle"} => env' = env ]_vars

====
